---------------------------- MODULE Spec2Model ----------------------------
(***************************************************************************)
(* Entity resolution pipeline of zagreb-buildings: the geocode stage       *)
(* (scripts/geocode.ts) and the footprint stage                            *)
(* (scripts/fetch_footprints.ts, second program of the file, lines         *)
(* 401-1213), with the validation helpers both import.                     *)
(*                                                                         *)
(* Abstractions.  Distances are whole metres and areas whole multiples of  *)
(* 10 m2, so every score is an integer.  An OSM reference "way/12" is the  *)
(* record [t |-> "way", n |-> 12]; every n has two digits, so that the     *)
(* string order localeCompare uses is the numeric order of n.  A polygon   *)
(* is named by the reference of the feature it came from; the signals      *)
(* turf computes from coordinates (containment, area, centroid distance)   *)
(* are fields of the feature as the service returned it for the target.    *)
(***************************************************************************)
EXTENDS Integers, Sequences, FiniteSets, TLC

VARIABLES
    features,   \* SpecPick: the features of one spatial-service response
    picked,     \* SpecPick: what the radius step made of them, or NoPick
    repicked,   \* SpecOrder: what it made of them in another order, or NoPick
    rows,       \* footprint stage: the rows of the geocoded CSV
    run,        \* footprint stage: 1 for the first run, 2 for the rerun
    rowIdx,     \* main: the loop variable i, index of the row being processed
    pc,         \* main: "row" between rows, "fetch" inside fetchOverpass, "done";
                \* "built" after build_geojson, "generated" in SpecQueries
    step,       \* findGeometryWithFallback: index of the source being tried
    attempt,    \* fetchOverpass: number of the attempt about to be made
    lastOutcome,\* fetchOverpass: how the previous attempt of this call ended
    radii_tried,\* findGeometryWithFallback: radii pushed so far for this row
    cache,      \* cache/overpass_<area>: cache path |-> stored response
    results,    \* main: the results pushed so far in this run
    counts,     \* main: the counts object of this run
    geometries, \* main: building id |-> pick written to geometries_<area>.json
    requests,   \* live spatial-service requests of this run, counted to MaxCounted
    failedCalls,\* fetchOverpass calls that gave up so far, at most MaxFailedCalls
    records,    \* geocode stage: the canonical records with their queries
    qIdx,       \* geocode main: index of the query being looked up
    res,        \* geocodeNominatim: the response variable, "null" until one arrived
    geocodeCache,     \* cache/geocode_<area>.json: the entries in insertion order
    scoredCandidates, \* geocode main: the candidates of the current record
    out,        \* geocode main: the output rows pushed so far in this run
    hits,       \* SpecRank: the hits of the response just ranked
    pacing,     \* the sleep before the latest live request and the sleep after it
    queried,    \* cache path |-> the query whose response the cache file holds
    mapFeatures,\* build_geojson: the features of the map document
    canonical,  \* SpecQueries: the canonical record, or NoRecord
    addressQueries \* SpecQueries: what addressQueriesForRow returned for it

pickVars == <<features, picked, repicked, canonical, addressQueries>>
fpVars == <<rows, run, rowIdx, pc, step, attempt, lastOutcome, radii_tried, cache, results,
            counts, geometries, requests, failedCalls, pacing, queried, mapFeatures>>
fpOnly == <<rows, step, radii_tried, cache, results, counts, geometries, failedCalls, queried,
            mapFeatures>>
geoVars == <<records, qIdx, res, geocodeCache, scoredCandidates, out, hits>>
vars == <<pickVars, fpVars, geoVars>>

-----------------------------------------------------------------------------
(* Program constants                                                       *)

ContainsBonus == 10000
HouseNumberBonus == 120
StreetBonus == 60
BuildingTagBonus == 80
DistCap == 500
AreaCap == 2000
StrongAddrBonus == 60
AmbiguityMargin == 80
TopCandidatesMax == 15
PartsDistMax == 80
PartsScoreWindow == 600
PartsMax == 10
RADIUS_M == 80
OverpassMaxAttempts == 4
BackoffBaseMs == 800

-----------------------------------------------------------------------------
(* Generic helpers                                                         *)

Max(a, b) == IF a >= b THEN a ELSE b

Abs(a) == IF a >= 0 THEN a ELSE 0 - a

\* Array.prototype.filter: the elements satisfying Test, in order.
FilterSeq(s, Test(_)) == SelectSeq(s, Test)

\* Array.prototype.slice(0, n)
Slice0(s, n) == SubSeq(s, 1, IF Len(s) < n THEN Len(s) ELSE n)

\* Array.prototype.sort with comparator Cmp: stable, so elements that
\* compare equal keep their relative order (SortSeq is an insertion sort
\* that moves an element only past those it is strictly before).
StableSort(s, Cmp(_, _)) ==
    LET Before(a, b) == Cmp(a, b) < 0 IN SortSeq(s, Before)

\* The sleeps of the two stages: none, the backoff before attempt n + 1 of a
\* request (800 * 2 ** (attempt - 1) ms) and the fixed delay of ms
\* milliseconds after a live call.
NoSleep == [kind |-> "none", ms |-> 0]
Backoff(n) == [kind |-> "backoff", ms |-> BackoffBaseMs * 2 ^ (n - 1)]
RateLimit(ms) == [kind |-> "rate_limit", ms |-> ms]

\* No live request was sent yet by this process.
Unpaced == [before |-> "first", after |-> [kind |-> "first", ms |-> 0]]

\* A live request is sent and slept is the sleep that follows it: the
\* sleep before the request is the one that followed the request before.
Sent(p, slept) == [before |-> p.after.kind, after |-> slept]

RECURSIVE ConcatAll(_)
ConcatAll(ss) == IF ss = <<>> THEN <<>> ELSE Head(ss) \o ConcatAll(Tail(ss))

-----------------------------------------------------------------------------
(* Geometry validation and feature extraction                              *)

NoCand == [none |-> TRUE]

\* validateGeometry(geom).isValid: only a missing geometry or a type other
\* than Polygon / MultiPolygon is an error; the area checks only warn.
validateGeometry(geom) ==
    /\ geom # NoCand
    /\ geom.type \in {"Polygon", "MultiPolygon"}

\* validateGeometry(geom).warnings: an area of less than 10 m2 or of more
\* than 100000 m2 is flagged as unrealistic, and isValid stays true.
MinPlausibleArea == 10
MaxPlausibleArea == 100000
AreaWarning(areaM2) == areaM2 < MinPlausibleArea \/ areaM2 > MaxPlausibleArea

\* The geometry of a feature: its type and its polygons.
GeometryOf(f) == [type |-> f.gtype, polys |-> [k \in 1..f.npoly |-> <<f.ref, k>>]]

\* toFeatures: the Polygon and MultiPolygon features of a response.
toFeatures(resp) ==
    LET IsPoly(f) == f.gtype = "Polygon" \/ f.gtype = "MultiPolygon"
    IN  FilterSeq(resp, IsPoly)

-----------------------------------------------------------------------------
(* Candidate scoring                                                       *)

\* addrMatches: 120 for an equal house number, 60 when the address text
\* includes the tagged street.  An address is [street, hn].
addrMatches(props, a) ==
    (IF a.hn # "" /\ props.hn # "" /\ props.hn = a.hn THEN HouseNumberBonus ELSE 0)
    + (IF props.street # "" /\ props.street = a.street THEN StreetBonus ELSE 0)

RECURSIVE addrMatchesMulti(_, _)
addrMatchesMulti(props, addrs) ==
    IF addrs = <<>> THEN 0
    ELSE Max(addrMatches(props, Head(addrs)), addrMatchesMulti(props, Tail(addrs)))

tagClassFromProps(props) ==
    IF props.part THEN "building_part"
    ELSE IF props.building THEN "building"
    ELSE IF props.reltype THEN "typed_building_relation"
    ELSE "unknown"

TagBonus(tagClass) ==
    IF tagClass = "building" THEN BuildingTagBonus
    ELSE IF tagClass = "building_part" THEN 0 - 20
    ELSE 0

\* The composite score of pickBest.
ScoreOf(contains, addrBonus, tagClass, dist, area) ==
    (IF contains THEN ContainsBonus ELSE 0)
    + addrBonus
    + TagBonus(tagClass)
    + Max(0, DistCap - dist)
    + Max(0, AreaCap - (area \div 10))

\* One ScoredCandidate of pickBest.
ScoreFeature(f, addrs) ==
    LET addrBonus == addrMatchesMulti(f.props, addrs)
        tagClass == tagClassFromProps(f.props)
    IN  [osm_ref |-> f.ref,
         score |-> ScoreOf(f.contains, addrBonus, tagClass, f.dist, f.area),
         contains |-> f.contains,
         dist_m |-> f.dist,
         area_m2 |-> f.area,
         addr_bonus |-> addrBonus,
         tag_class |-> tagClass,
         feature |-> f]

\* a.osm_ref.localeCompare(b.osm_ref): "relation/.." sorts before "way/..".
RefCompare(a, b) ==
    IF a.t # b.t THEN (IF a.t = "relation" THEN 0 - 1 ELSE 1)
    ELSE a.n - b.n

\* Mutant of PoolCompare: the comparator stops at the distance.
PoolCompareNoRef(a, b) ==
    IF b.score # a.score THEN b.score - a.score
    ELSE IF a.area_m2 # b.area_m2 THEN a.area_m2 - b.area_m2
    ELSE a.dist_m - b.dist_m

\* The comparator of pool.sort: score descending, then smaller area, then
\* smaller distance, then osm_ref.
PoolCompare(a, b) ==
    IF b.score # a.score THEN b.score - a.score
    ELSE IF a.area_m2 # b.area_m2 THEN a.area_m2 - b.area_m2
    ELSE IF a.dist_m # b.dist_m THEN a.dist_m - b.dist_m
    ELSE RefCompare(a.osm_ref, b.osm_ref)

\* Mutant of Containing: the filter keeps the candidates that do not contain
\* the point.
ContainingNegated(scored) ==
    LET Lacks(x) == ~x.contains IN FilterSeq(scored, Lacks)

\* scored.filter((x) => x.contains)
Containing(scored) ==
    LET Has(x) == x.contains IN FilterSeq(scored, Has)

\* The candidates that compete: the containing ones when there are any.
PoolOf(scored) ==
    LET containing == Containing(scored)
    IN  IF Len(containing) > 0 THEN containing ELSE scored

\* Mutant of Grade: the ambiguity of the two top-ranked candidates is not
\* looked at.
GradeWithoutAmbiguity(best, second) ==
    IF best.contains /\ best.addr_bonus >= StrongAddrBonus
        THEN [confidence |-> "high", strategy |-> "point_containment_with_address"]
    ELSE IF best.contains
        THEN [confidence |-> "medium", strategy |-> "point_containment_only"]
    ELSE IF best.addr_bonus >= StrongAddrBonus
        THEN [confidence |-> "medium", strategy |-> "address_match_only"]
    ELSE [confidence |-> "low", strategy |-> "fallback_matching"]

\* Mutant of Grade: containment alone gives high confidence.
GradeContainmentIsHigh(best, second) ==
    IF best.contains
        THEN [confidence |-> "high", strategy |-> "point_containment_with_address"]
    ELSE IF best.addr_bonus >= StrongAddrBonus
        THEN [confidence |-> "medium", strategy |-> "address_match_only"]
    ELSE IF second # NoCand /\ Abs(best.score - second.score) < AmbiguityMargin
        THEN [confidence |-> "low", strategy |-> "ambiguous_top2"]
    ELSE [confidence |-> "low", strategy |-> "fallback_matching"]

\* Confidence and strategy from the two top-ranked candidates.
Grade(best, second) ==
    LET base ==
            IF best.contains /\ best.addr_bonus >= StrongAddrBonus
                THEN [confidence |-> "high", strategy |-> "point_containment_with_address"]
            ELSE IF best.contains
                THEN [confidence |-> "medium", strategy |-> "point_containment_only"]
            ELSE IF best.addr_bonus >= StrongAddrBonus
                THEN [confidence |-> "medium", strategy |-> "address_match_only"]
            ELSE [confidence |-> "low", strategy |-> "fallback_matching"]
    IN  IF /\ second # NoCand
           /\ ~best.contains
           /\ best.addr_bonus < StrongAddrBonus
           /\ Abs(best.score - second.score) < AmbiguityMargin
        THEN [confidence |-> "low", strategy |-> "ambiguous_top2"]
        ELSE base

pickBest(feats, addrs) ==
    IF Len(feats) = 0
    THEN [best |-> NoCand, strategy |-> "no_candidates", confidence |-> "low",
          topCandidates |-> <<>>]
    ELSE
    LET Valid(f) == validateGeometry(GeometryOf(f))
        validFeatures == FilterSeq(feats, Valid)
    IN  IF Len(validFeatures) = 0
        THEN [best |-> NoCand, strategy |-> "no_valid_geometries", confidence |-> "low",
              topCandidates |-> <<>>]
        ELSE
        LET scored == [i \in DOMAIN validFeatures |-> ScoreFeature(validFeatures[i], addrs)]
            pool == StableSort(PoolOf(scored), PoolCompare)
            best == pool[1]
            second == IF Len(pool) >= 2 THEN pool[2] ELSE NoCand
            g == Grade(best, second)
        IN  [best |-> best, strategy |-> g.strategy, confidence |-> g.confidence,
             topCandidates |-> Slice0(pool, TopCandidatesMax)]

\* mergeBuildingParts: the building parts among the candidates that lie
\* within 80 m and within 600 points of the winner, as one MultiPolygon.
mergeBuildingParts(best, candidates) ==
    IF best.tag_class # "building_part" THEN NoCand
    ELSE
    LET IsPart(c) == c.tag_class = "building_part"
        Near(c) == c.dist_m <= PartsDistMax
        InWindow(c) == c.score >= best.score - PartsScoreWindow
        parts == Slice0(FilterSeq(FilterSeq(FilterSeq(candidates, IsPart), Near), InWindow),
                        PartsMax)
        polys == ConcatAll([i \in DOMAIN parts |-> GeometryOf(parts[i].feature).polys])
    IN  IF Len(parts) < 2 THEN NoCand
        ELSE IF Len(polys) = 0 THEN NoCand
        ELSE [geometry |-> [type |-> "MultiPolygon", polys |-> polys],
              osm_refs |-> [i \in DOMAIN parts |-> parts[i].osm_ref]]

-----------------------------------------------------------------------------
(* One source of findGeometryWithFallback applied to a response            *)

\* A strategy string `${src}[_${radius}m][_parts_merged]_${pick}` is kept as
\* its components.
Strategy(src, radius, merged, pick) ==
    [src |-> src, radius |-> radius, merged |-> merged, pick |-> pick]

NoPick == [none |-> TRUE]

\* Lines 970-995: the result of a radius step whose response is resp, or
\* NoPick when pickBest found no candidate.
RadiusResult(resp, addrs, radius, radii) ==
    LET p == pickBest(toFeatures(resp), addrs)
        merged == mergeBuildingParts(p.best, p.topCandidates)
    IN  IF p.best = NoCand THEN NoPick
        ELSE IF merged # NoCand
        THEN [geometry |-> merged.geometry,
              osm_refs |-> merged.osm_refs,
              strategy |-> Strategy("radius", radius, TRUE, p.strategy),
              confidence |-> p.confidence,
              topCandidates |-> p.topCandidates,
              radii_tried |-> radii]
        ELSE [geometry |-> GeometryOf(p.best.feature),
              osm_refs |-> <<p.best.osm_ref>>,
              strategy |-> Strategy("radius", radius, FALSE, p.strategy),
              confidence |-> p.confidence,
              topCandidates |-> p.topCandidates,
              radii_tried |-> radii]

\* Lines 907-919 and 930-942: the result of a direct fetch (src is
\* "override_direct" or "direct_geocode_ref") whose response is resp.
DirectResult(resp, addrs, src, radii) ==
    LET p == pickBest(toFeatures(resp), addrs)
    IN  IF p.best = NoCand THEN NoPick
        ELSE [geometry |-> GeometryOf(p.best.feature),
              osm_refs |-> <<p.best.osm_ref>>,
              strategy |-> Strategy(src, 0, FALSE, p.strategy),
              confidence |-> p.confidence,
              topCandidates |-> p.topCandidates,
              radii_tried |-> radii]

\* strategy.includes("parts_merged"), strategy.includes("ambiguous") and
\* strategy.startsWith(prefix) on the components of a strategy string.
IncludesPartsMerged(st) == st.merged
IncludesAmbiguous(st) == st.pick = "ambiguous_top2"
StartsWith(st, prefix) == st.src = prefix

\* Lines 1085-1089 of main: the status of a match result.
StatusOf(m) ==
    IF m.geometry = NoCand THEN "not_found"
    ELSE IF IncludesAmbiguous(m.strategy) THEN "ambiguous"
    ELSE IF IncludesPartsMerged(m.strategy) THEN "matched_parts_merged"
    ELSE "matched"

-----------------------------------------------------------------------------
(* SpecPick: pickBest and mergeBuildingParts on bounded responses          *)

MaxFeat == 3
CrowdSize == 13

\* The address variants of the record being matched.
PickAddrs == <<[street |-> "ilica", hn |-> "10"], [street |-> "frankopanska", hn |-> "2"]>>

PropsBuilding == [part |-> FALSE, building |-> TRUE, reltype |-> FALSE]
PropsPart == [part |-> TRUE, building |-> FALSE, reltype |-> FALSE]
PropsRelation == [part |-> FALSE, building |-> FALSE, reltype |-> TRUE]

\* Tag sets of a feature, without its address tags.
TagKinds == {PropsBuilding, PropsPart, PropsRelation}

\* Address tags: none, the street only (bonus 60), street and number (180).
AddrTags == {[hn |-> "", street |-> ""], [hn |-> "", street |-> "ilica"],
             [hn |-> "10", street |-> "ilica"]}

\* Centroid distance and area of a feature.
Shapes == {[dist |-> 20, area |-> 1000], [dist |-> 90, area |-> 30000]}

MkFeature(n, kind, addr, contains, shape) ==
    [ref |-> [t |-> "way", n |-> n],
     gtype |-> "Polygon", npoly |-> 1,
     props |-> [part |-> kind.part, building |-> kind.building, reltype |-> kind.reltype,
                hn |-> addr.hn, street |-> addr.street],
     contains |-> contains, dist |-> shape.dist, area |-> shape.area]

\* A dense block: CrowdSize more buildings around the point, none of
\* them containing it.
CrowdFeature(n) ==
    MkFeature(n, PropsBuilding, [hn |-> "", street |-> ""], FALSE, [dist |-> 30, area |-> 500])

\* The variables that belong to the footprint stage alone, and those of
\* the geocode stage alone, while another part of the program is run.
FootprintIdle ==
    /\ rows = <<>> /\ step = 0 /\ radii_tried = <<>> /\ cache = <<>> /\ results = <<>>
    /\ counts = <<>> /\ geometries = <<>> /\ failedCalls = 0
    /\ queried = <<>> /\ mapFeatures = <<>>

GeocodeIdle ==
    /\ records = <<>> /\ qIdx = 0 /\ res = "null" /\ geocodeCache = <<>>
    /\ scoredCandidates = <<>> /\ out = <<>> /\ hits = <<>>

NoRecord == [none |-> TRUE]

PickIdle ==
    /\ features = <<>> /\ picked = NoPick /\ repicked = NoPick
    /\ canonical = NoRecord /\ addressQueries = <<>>

StageIdle ==
    /\ run = 0 /\ rowIdx = 0 /\ pc = "idle" /\ attempt = 0 /\ lastOutcome = "none"
    /\ requests = 0 /\ pacing = Unpaced

InitPick ==
    /\ PickIdle
    /\ StageIdle /\ FootprintIdle /\ GeocodeIdle

\* The service's response holds one more feature.
AddFeature ==
    /\ pc = "idle"
    /\ picked = NoPick
    /\ Len(features) < MaxFeat
    /\ \E kind \in TagKinds, addr \in AddrTags, c \in BOOLEAN, shape \in Shapes :
          features' = Append(features, MkFeature(10 + Len(features), kind, addr, c, shape))
    /\ UNCHANGED <<picked, repicked, fpVars, geoVars,
                   canonical, addressQueries>>

\* The service's response holds a part of the building at the record's
\* address whose centroid lies beyond the 80 m within which parts are merged
\* (the radius query returns every way with a node inside the radius).
AnnexFeature ==
    MkFeature(40, PropsPart, [hn |-> "10", street |-> "ilica"], FALSE,
              [dist |-> 90, area |-> 1000])

AddAnnex ==
    /\ pc = "idle"
    /\ picked = NoPick
    /\ Len(features) < MaxFeat
    /\ \A i \in DOMAIN features : features[i] # AnnexFeature
    /\ features' = Append(features, AnnexFeature)
    /\ UNCHANGED <<picked, repicked, fpVars, geoVars,
                   canonical, addressQueries>>

\* The service's response also holds the buildings of a dense block
\* around a building that is mapped as parts only.
AddCrowd ==
    /\ pc = "idle"
    /\ picked = NoPick
    /\ Len(features) = MaxFeat
    /\ \A i \in DOMAIN features : features[i].props.part
    /\ features' = features \o [i \in 1..CrowdSize |-> CrowdFeature(50 + i)]
    /\ UNCHANGED <<picked, repicked, fpVars, geoVars,
                   canonical, addressQueries>>

\* The radius step at the first radius runs on the response.
ApplyRadiusStep ==
    /\ pc = "idle"
    /\ picked = NoPick
    /\ Len(features) > 0
    /\ picked' = RadiusResult(features, PickAddrs, 80, <<80>>)
    /\ UNCHANGED <<features, repicked, fpVars, geoVars,
                   canonical, addressQueries>>

NextPick == AddFeature \/ AddAnnex \/ AddCrowd \/ ApplyRadiusStep

SpecPick == InitPick /\ [][NextPick]_vars

-----------------------------------------------------------------------------
(* The footprint stage: main, findGeometryWithFallback, fetchOverpass      *)

MaxRows == 2
MaxCounted == 1
MaxFailedCalls == 1

NaN == [nan |-> TRUE]
Num(v) == [v |-> v]

\* The decimal texts of the model with their values in 1/100 degree.
DecimalText ==
    ("45.81" :> 4581) @@ ("15.97" :> 1597) @@ ("45.75" :> 4575) @@ ("16.12" :> 1612)
    @@ ("45.33" :> 4533) @@ ("14.44" :> 1444)

\* Number(text) on the text of a CSV field: the empty field is 0, decimal
\* text is its value, anything else is NaN.
NumberOf(text) ==
    IF text = "" THEN Num(0)
    ELSE IF text \in DOMAIN DecimalText THEN Num(DecimalText[text])
    ELSE NaN

IsFinite(x) == x # NaN

NoOverride == [none |-> TRUE]

\* sanitizeForFilename: every run of characters outside [a-zA-Z0-9._-]
\* becomes "_".
sanitizeForFilename(id) ==
    IF id = "zg/1" THEN "zg_1" ELSE id

RowIds == <<"zg/1", "zg-2", "zg.3">>

NoRef == [osm_type |-> "", osm_id |-> ""]

\* A row of the geocoded CSV with its line of the overrides table, if any.
MkRow(lat, lon, category, addresstype, ref, o) ==
    [lat |-> lat, lon |-> lon,
     geocode_category |-> category, geocode_addresstype |-> addresstype,
     geocode_osm_type |-> ref.osm_type, geocode_osm_id |-> ref.osm_id,
     override |-> o]

OverrideRelation == [osm_type |-> "relation", osm_id |-> "31"]

\* The rows the stage is run on.  The geocode stage writes the coordinates
\* as decimal text and leaves every geocode field of an unresolved record
\* empty; the last row has coordinate text that is not a number.
RowKinds ==
    {MkRow("45.81", "15.97", "building", "building", [osm_type |-> "way", osm_id |-> "21"],
           NoOverride),
     MkRow("45.81", "15.97", "place", "square", [osm_type |-> "node", osm_id |-> "22"],
           NoOverride),
     MkRow("45.81", "15.97", "place", "building", [osm_type |-> "relation", osm_id |-> "23"],
           OverrideRelation),
     MkRow("45.81", "15.97", "highway", "road", [osm_type |-> "way", osm_id |-> "24"],
           OverrideRelation),
     MkRow("", "", "", "", NoRef, NoOverride),
     MkRow("n/a", "n/a", "", "", NoRef, NoOverride)}

\* The rows without coordinates.
BareKinds == {r \in RowKinds : r.geocode_category = ""}

WithId(k, r) == [id |-> RowIds[k]] @@ r

\* addressesForRow: the address variants of a row (the same for every row
\* of the model).
addressesForRow(r) == PickAddrs

\* isTrustedGeocodeRef: the geocoder's object, when it is a way or a
\* relation that Nominatim classifies as a building.
isTrustedGeocodeRef(r) ==
    IF r.geocode_osm_id = "" THEN NoOverride
    ELSE IF r.geocode_osm_type # "way" /\ r.geocode_osm_type # "relation" THEN NoOverride
    ELSE IF r.geocode_category = "building" \/ r.geocode_addresstype = "building"
         THEN [osm_type |-> r.geocode_osm_type, osm_id |-> r.geocode_osm_id]
    ELSE NoOverride

\* Mutant of radiusSteps: no row gets the extended step.
radiusStepsShort(r) == <<RADIUS_M, 120, 160, 200>>

\* Lines 949-953: the radius ladder of a row.
radiusSteps(r) ==
    LET lowConfidenceGeocode ==
            /\ r.geocode_category # "building"
            /\ r.geocode_addresstype # "building"
            /\ r.geocode_category = "place"
    IN  IF lowConfidenceGeocode THEN <<RADIUS_M, 120, 160, 200, 350>>
        ELSE <<RADIUS_M, 120, 160, 200>>

\* Mutant of Sources: the geocoder's object is fetched before the override.
SourcesTrustedFirst(r) ==
    LET id == sanitizeForFilename(r.id)
        trusted == isTrustedGeocodeRef(r)
        ladder == radiusSteps(r)
    IN  (IF trusted # NoOverride
         THEN <<[src |-> "direct_geocode_ref", radius |-> 0,
                 path |-> <<id, "geocode", trusted.osm_type, trusted.osm_id>>]>>
         ELSE <<>>)
        \o (IF r.override # NoOverride
            THEN <<[src |-> "override_direct", radius |-> 0,
                    path |-> <<id, "override", r.override.osm_type, r.override.osm_id>>]>>
            ELSE <<>>)
        \o [k \in DOMAIN ladder |->
              [src |-> "radius", radius |-> ladder[k], path |-> <<id, "radius", ladder[k]>>]]

\* The sources findGeometryWithFallback consults for a row, in order, each
\* with the path of its cache file.
Sources(r) ==
    LET id == sanitizeForFilename(r.id)
        trusted == isTrustedGeocodeRef(r)
        ladder == radiusSteps(r)
    IN  (IF r.override # NoOverride
         THEN <<[src |-> "override_direct", radius |-> 0,
                 path |-> <<id, "override", r.override.osm_type, r.override.osm_id>>]>>
         ELSE <<>>)
        \o (IF trusted # NoOverride
            THEN <<[src |-> "direct_geocode_ref", radius |-> 0,
                    path |-> <<id, "geocode", trusted.osm_type, trusted.osm_id>>]>>
            ELSE <<>>)
        \o [k \in DOMAIN ladder |->
              [src |-> "radius", radius |-> ladder[k], path |-> <<id, "radius", ladder[k]>>]]

CurRow == rows[rowIdx]
CurSource == Sources(CurRow)[step]

\* The result findGeometryWithFallback returns when every source fails.
NoMatchFound(radii) ==
    [geometry |-> NoCand, osm_refs |-> <<>>,
     strategy |-> Strategy("no_match_found", 0, FALSE, ""),
     confidence |-> "low", topCandidates |-> <<>>, radii_tried |-> radii]

\* What findGeometryWithFallback makes of the response of the current source.
SourceResult(source, resp, radii) ==
    IF source.src = "radius"
    THEN RadiusResult(resp, addressesForRow(CurRow), source.radius, radii)
    ELSE DirectResult(resp, addressesForRow(CurRow), source.src, radii)

\* The debug entry of the report for one candidate.
TopDebug(c) ==
    [osm_ref |-> c.osm_ref, score |-> c.score, contains |-> c.contains, dist_m |-> c.dist_m,
     area_m2 |-> c.area_m2, addr_bonus |-> c.addr_bonus, tag_class |-> c.tag_class]

ZeroCounts ==
    [matched |-> 0, matched_parts_merged |-> 0, ambiguous |-> 0, not_found |-> 0,
     invalid |-> 0, skipped_no_coords |-> 0, direct_geocode_ref |-> 0, override_direct |-> 0]

Bump(c, field) == [c EXCEPT ![field] = @ + 1]

\* Lines 1085-1162 of main: the status of the match result, the counts, the
\* geometries map and the result pushed for row r.
ReportedStatus(m) ==
    IF m.geometry = NoCand THEN "not_found"
    ELSE IF ~validateGeometry(m.geometry) THEN "invalid"
    ELSE StatusOf(m)

\* Mutant of CountsAfter: every result with a geometry is counted as matched.
CountsAfterMatchedOnly(c, m) ==
    LET c1 == IF StartsWith(m.strategy, "direct_geocode_ref")
              THEN Bump(c, "direct_geocode_ref") ELSE c
        c2 == IF StartsWith(m.strategy, "override_direct")
              THEN Bump(c1, "override_direct") ELSE c1
    IN  Bump(c2, IF m.geometry = NoCand THEN "not_found" ELSE "matched")

CountsAfter(c, m) ==
    LET c1 == IF StartsWith(m.strategy, "direct_geocode_ref")
              THEN Bump(c, "direct_geocode_ref") ELSE c
        c2 == IF StartsWith(m.strategy, "override_direct")
              THEN Bump(c1, "override_direct") ELSE c1
    IN  Bump(c2, ReportedStatus(m))

ResultFor(r, m) ==
    [building_id |-> r.id,
     status |-> ReportedStatus(m),
     strategy |-> m.strategy,
     confidence |-> m.confidence,
     osm_refs |-> m.osm_refs,
     geometry |-> IF m.geometry # NoCand /\ validateGeometry(m.geometry)
                  THEN m.geometry ELSE NoCand,
     radii_tried |-> m.radii_tried,
     top_candidates |-> [k \in DOMAIN m.topCandidates |-> TopDebug(m.topCandidates[k])]]

\* Mutant of GeometriesAfter: the map gets a key for every matched row.
GeometriesAfterUnconditional(g, r, m) ==
    [id \in DOMAIN g \cup {r.id} |->
        IF id = r.id THEN [osm_ref |-> m.osm_refs, geometry |-> m.geometry] ELSE g[id]]

\* geometries[r.id] = {osm_ref, geometry}, only for a valid geometry.
GeometriesAfter(g, r, m) ==
    IF m.geometry # NoCand /\ validateGeometry(m.geometry)
    THEN [id \in DOMAIN g \cup {r.id} |->
            IF id = r.id THEN [osm_ref |-> m.osm_refs[1], geometry |-> m.geometry]
            ELSE g[id]]
    ELSE g

\* Lines 1063-1076: the result pushed for a row without coordinates.
SkippedResult(r) ==
    [building_id |-> r.id, status |-> "skipped_no_coords",
     strategy |-> Strategy("skipped_no_coords", 0, FALSE, ""),
     confidence |-> "low", osm_refs |-> <<>>, geometry |-> NoCand,
     radii_tried |-> <<>>, top_candidates |-> <<>>]

\* What the spatial service can answer.  A direct query answers with the
\* object asked for (as a polygon, or as a line when the way is not
\* closed, or as a polygon of 12 hectares), alone or with a tagged member
\* way; a radius query with nothing, with a building around the point, or
\* with two parts of a building that miss the point or hold it.
DirectResponses(ref) ==
    LET obj == [ref |-> ref, gtype |-> "Polygon", npoly |-> 1,
                props |-> [part |-> FALSE, building |-> TRUE, reltype |-> FALSE,
                           hn |-> "", street |-> ""],
                contains |-> FALSE, dist |-> 90, area |-> 30000]
        line == [obj EXCEPT !.gtype = "LineString"]
        member == MkFeature(41, PropsBuilding, [hn |-> "10", street |-> "ilica"], TRUE,
                            [dist |-> 20, area |-> 1000])
        vast == [obj EXCEPT !.area = 120000]
    IN  {<<line>>, <<obj>>, <<obj, member>>, <<vast>>}

RadiusResponses ==
    {<<>>,
     <<MkFeature(42, PropsBuilding, [hn |-> "10", street |-> "ilica"], TRUE,
                 [dist |-> 20, area |-> 1000])>>,
     <<MkFeature(43, PropsPart, [hn |-> "", street |-> ""], FALSE, [dist |-> 20, area |-> 1000]),
       MkFeature(44, PropsPart, [hn |-> "", street |-> ""], FALSE, [dist |-> 20, area |-> 1000])>>,
     <<MkFeature(45, PropsPart, [hn |-> "", street |-> ""], TRUE, [dist |-> 20, area |-> 1000]),
       MkFeature(46, PropsPart, [hn |-> "", street |-> ""], TRUE, [dist |-> 20, area |-> 1000])>>}

\* The number that an object id of the model spells.
RefNumber(id) == IF id = "31" THEN 31 ELSE IF id = "21" THEN 21 ELSE 23

\* Around latitude 0, longitude 0 there are no buildings.
ResponsesFor(source) ==
    IF source.src = "radius"
    THEN (IF NumberOf(CurRow.lat) = Num(0) /\ NumberOf(CurRow.lon) = Num(0)
          THEN {<<>>} ELSE RadiusResponses)
    ELSE DirectResponses([t |-> source.path[3], n |-> RefNumber(source.path[4])])

CountTo(n, cap) == IF n < cap THEN n + 1 ELSE n

\* overpassQuery(lat, lon, radius) and overpassDirectQuery(osmType, osmId):
\* the parameters of the query sent for a source of row r.
QueryOf(source, r) ==
    IF source.src = "radius"
    THEN [lat |-> NumberOf(r.lat), lon |-> NumberOf(r.lon), radius |-> source.radius]
    ELSE [osm_type |-> source.path[3], osm_id |-> source.path[4]]

InitFootprint ==
    /\ \E n \in 1..MaxRows :
         \E kinds \in [1..n -> RowKinds] :
            \* at most one row of a list was resolved by the geocode stage
            /\ Cardinality({k \in 1..n : kinds[k] \notin BareKinds}) <= 1
            /\ rows = [k \in 1..n |-> WithId(k, kinds[k])]
    /\ run = 1
    /\ rowIdx = 1
    /\ pc = "row"
    /\ step = 0
    /\ attempt = 0
    /\ lastOutcome = "none"
    /\ radii_tried = <<>>
    /\ cache = <<>>
    /\ results = <<>>
    /\ counts = ZeroCounts
    /\ geometries = <<>>
    /\ requests = 0
    /\ failedCalls = 0
    /\ pacing = Unpaced
    /\ queried = <<>>
    /\ mapFeatures = <<>>
    /\ GeocodeIdle

\* The state after main pushed the result of match result m for the
\* current row and moved on to the next row.
Finish(m) ==
    /\ results' = Append(results, ResultFor(CurRow, m))
    /\ counts' = CountsAfter(counts, m)
    /\ geometries' = GeometriesAfter(geometries, CurRow, m)
    /\ rowIdx' = rowIdx + 1
    /\ pc' = "row"
    /\ step' = 0
    /\ attempt' = 0
    /\ lastOutcome' = "none"
    /\ radii_tried' = <<>>
    /\ UNCHANGED mapFeatures

\* Mutant of EnterStep: the radius of a radius step is not pushed.
EnterStepUnrecorded(k, radii) ==
    /\ step' = k
    /\ attempt' = 1
    /\ lastOutcome' = "none"
    /\ pc' = "fetch"
    /\ radii_tried' = radii
    /\ UNCHANGED <<rowIdx, results, counts, geometries, mapFeatures>>

\* findGeometryWithFallback enters source k of the current row: a radius
\* step first pushes its radius.
EnterStep(k, radii) ==
    /\ step' = k
    /\ attempt' = 1
    /\ lastOutcome' = "none"
    /\ pc' = "fetch"
    /\ radii_tried' = IF Sources(CurRow)[k].src = "radius"
                      THEN Append(radii, Sources(CurRow)[k].radius) ELSE radii
    /\ UNCHANGED <<rowIdx, results, counts, geometries, mapFeatures>>

\* Mutant of Advance: an override that gave nothing ends the matching.
AdvanceStopsAfterOverride ==
    IF step < Len(Sources(CurRow)) /\ CurSource.src # "override_direct"
    THEN EnterStep(step + 1, radii_tried)
    ELSE Finish(NoMatchFound(radii_tried))

\* The current source gave nothing: try the next one, or give up.
Advance ==
    IF step < Len(Sources(CurRow))
    THEN EnterStep(step + 1, radii_tried)
    ELSE Finish(NoMatchFound(radii_tried))

\* The current source answered resp (from the cache or from the service).
Consume(resp) ==
    LET m == SourceResult(CurSource, resp, radii_tried)
    IN  IF m # NoPick THEN Finish(m) ELSE Advance

\* Mutant of SkipRow: the row is passed over without a result.
SkipRowUnreported ==
    /\ pc = "row"
    /\ rowIdx <= Len(rows)
    /\ ~(IsFinite(NumberOf(CurRow.lat)) /\ IsFinite(NumberOf(CurRow.lon)))
    /\ counts' = Bump(counts, "skipped_no_coords")
    /\ rowIdx' = rowIdx + 1
    /\ UNCHANGED <<rows, run, pc, step, attempt, lastOutcome, radii_tried, cache, results,
                   geometries, requests, failedCalls, pickVars, geoVars, pacing, queried,
                   mapFeatures>>

\* Lines 1063-1076: a row without finite coordinates is skipped.
SkipRow ==
    /\ pc = "row"
    /\ rowIdx <= Len(rows)
    /\ ~(IsFinite(NumberOf(CurRow.lat)) /\ IsFinite(NumberOf(CurRow.lon)))
    /\ results' = Append(results, SkippedResult(CurRow))
    /\ counts' = Bump(counts, "skipped_no_coords")
    /\ rowIdx' = rowIdx + 1
    /\ UNCHANGED <<rows, run, pc, step, attempt, lastOutcome, radii_tried, cache,
                   geometries, requests, failedCalls, pickVars, geoVars,
                   pacing, queried, mapFeatures>>

\* Lines 1078-1083: main calls findGeometryWithFallback, which turns to its
\* first source.
BeginRow ==
    /\ pc = "row"
    /\ rowIdx <= Len(rows)
    /\ IsFinite(NumberOf(CurRow.lat)) /\ IsFinite(NumberOf(CurRow.lon))
    /\ EnterStep(1, <<>>)
    /\ UNCHANGED <<rows, run, cache, requests, failedCalls, pickVars, geoVars,
                   pacing, queried>>

\* fetchOverpass, lines 563-566: the cache file exists and is returned.
CacheHit ==
    /\ pc = "fetch"
    /\ CurSource.path \in DOMAIN cache
    /\ Consume(cache[CurSource.path])
    /\ UNCHANGED <<rows, run, cache, requests, failedCalls, pickVars, geoVars,
                   pacing, queried>>

\* Mutant of FetchOk: the response is returned without being written to
\* the cache file.
FetchOkNoCacheWrite ==
    /\ pc = "fetch"
    /\ CurSource.path \notin DOMAIN cache
    /\ \E resp \in ResponsesFor(CurSource) : Consume(resp)
    /\ requests' = CountTo(requests, MaxCounted)
    /\ pacing' = Sent(pacing, NoSleep)
    /\ UNCHANGED <<rows, run, cache, queried, failedCalls, pickVars, geoVars>>

\* fetchOverpass, lines 573-599: the service answers 200 with resp, which
\* is written to the cache file and returned.
FetchOk ==
    /\ pc = "fetch"
    /\ CurSource.path \notin DOMAIN cache
    /\ \E resp \in ResponsesFor(CurSource) :
         /\ cache' = [p \in DOMAIN cache \cup {CurSource.path} |->
                        IF p = CurSource.path THEN resp ELSE cache[p]]
         /\ Consume(resp)
    /\ queried' = [p \in DOMAIN queried \cup {CurSource.path} |->
                      IF p = CurSource.path THEN QueryOf(CurSource, CurRow) ELSE queried[p]]
    /\ requests' = CountTo(requests, MaxCounted)
    /\ pacing' = Sent(pacing, NoSleep)
    /\ UNCHANGED <<rows, run, failedCalls, pickVars, geoVars>>

\* The attempt fails with outcome o: another attempt follows while fewer
\* than maxAttempts were made, then the call throws and the source is given up.
FailedAttempt(o) ==
    /\ pc = "fetch"
    /\ CurSource.path \notin DOMAIN cache
    /\ requests' = CountTo(requests, MaxCounted)
    /\ IF attempt < OverpassMaxAttempts
       THEN /\ attempt' = attempt + 1
            /\ lastOutcome' = o
            /\ pacing' = Sent(pacing, Backoff(attempt))
            /\ UNCHANGED <<rowIdx, pc, step, radii_tried, results, counts, geometries,
                           mapFeatures, failedCalls>>
       ELSE /\ failedCalls < MaxFailedCalls
            /\ failedCalls' = failedCalls + 1
            /\ pacing' = Sent(pacing, NoSleep)
            /\ Advance
    /\ UNCHANGED <<rows, run, cache, queried, pickVars, geoVars>>

\* Lines 583-591: a retryable status (429, 502, 503, 504): sleep, continue.
FetchRetryable == FailedAttempt("retryable")

\* Lines 592 and 600-608: any other status throws inside the try block, and
\* the catch clause treats the error like a network failure.
FetchNonRetryable == FailedAttempt("non_retryable")

\* Lines 600-608: fetch or res.json() throws.
FetchThrows == FailedAttempt("threw")

\* The loop of main has passed the last row and the outputs are written.
EndRun ==
    /\ pc = "row"
    /\ rowIdx > Len(rows)
    /\ pc' = "done"
    /\ UNCHANGED <<rows, run, rowIdx, step, attempt, lastOutcome, radii_tried, cache, results,
                   counts, geometries, requests, failedCalls, pickVars, geoVars,
                   pacing, queried, mapFeatures>>

\* The stage is run again on the same input with the cache left behind.
Rerun ==
    /\ pc = "done"
    /\ run = 1
    /\ run' = 2
    /\ rowIdx' = 1
    /\ pc' = "row"
    /\ results' = <<>>
    /\ counts' = ZeroCounts
    /\ geometries' = <<>>
    /\ mapFeatures' = <<>>
    /\ requests' = 0
    /\ pacing' = Unpaced
    /\ UNCHANGED <<rows, step, attempt, lastOutcome, radii_tried, cache, queried, failedCalls,
                   pickVars, geoVars>>

-----------------------------------------------------------------------------
(* The map-document build: scripts/build_geojson.ts                        *)

\* Line 106: the point geometry made of the coordinate of a row.
PointGeometry(lon, lat) == [type |-> "Point", coordinates |-> <<lon, lat>>]

\* main, lines 93-159: the feature of row r given the results of the
\* footprint stage and its geometries map; its geometry is NoCand when the
\* row goes to missingGeometry instead.
FeatureFor(r, footprintResults, geomMap) ==
    LET mine == {k \in DOMAIN footprintResults : footprintResults[k].building_id = r.id}
        \* footprintById[r.id]: the last result of that id
        fp == IF mine = {} THEN NoCand
              ELSE footprintResults[CHOOSE k \in mine : \A j \in mine : j <= k]
        pick == IF r.id \in DOMAIN geomMap THEN geomMap[r.id] ELSE NoCand
        lat == NumberOf(r.lat)
        lon == NumberOf(r.lon)
        hasPoint == IsFinite(lat) /\ IsFinite(lon)
        geometry ==
            IF fp # NoCand /\ fp.geometry # NoCand THEN fp.geometry
            ELSE IF pick # NoCand THEN pick.geometry
            ELSE NoCand
        footprintStatus ==
            IF fp # NoCand THEN fp.status
            ELSE IF pick # NoCand THEN "matched_legacy" ELSE "not_found"
        footprintStrategy ==
            IF fp # NoCand THEN fp.strategy
            ELSE IF pick # NoCand THEN Strategy("legacy_geometries_map", 0, FALSE, "")
            ELSE Strategy("none", 0, FALSE, "")
        fallback == geometry = NoCand /\ hasPoint
    IN  [id |-> r.id,
         geometry |-> IF fallback THEN PointGeometry(lon, lat) ELSE geometry,
         footprintStatus |-> IF fallback THEN "not_found_point_fallback" ELSE footprintStatus,
         footprintStrategy |->
            IF fallback THEN Strategy("point_fallback", 0, FALSE, "") ELSE footprintStrategy,
         lat |-> IF hasPoint THEN lat ELSE NoCand,
         lon |-> IF hasPoint THEN lon ELSE NoCand]

\* main of build_geojson.ts run on the geocoded CSV and on the outputs of
\* the footprint stage: the features of the rows that have a geometry, in
\* the order of the rows.
BuildGeojson ==
    /\ pc = "done"
    /\ pc' = "built"
    /\ mapFeatures' =
          LET HasGeometry(f) == f.geometry # NoCand
          IN  FilterSeq([k \in DOMAIN rows |-> FeatureFor(rows[k], results, geometries)],
                        HasGeometry)
    /\ UNCHANGED <<rows, run, rowIdx, step, attempt, lastOutcome, radii_tried, cache, results,
                   counts, geometries, requests, failedCalls, pickVars, geoVars,
                   pacing, queried>>

-----------------------------------------------------------------------------
(* The geocode stage: scripts/geocode.ts                                   *)

GeocodeMaxAttempts == 3
RATE_LIMIT_MS == 1100
OutOfBoundsPenalty == 10000
NullEntryScore == 1000000

MaxRecords == 2

Null == [null |-> TRUE]

\* ZAGREB_BOUNDS, in 1/100 degree.
ZAGREB_BOUNDS == [minLat |-> 4575, maxLat |-> 4587, minLon |-> 1587, maxLon |-> 1612]

isWithinZagrebBounds(lat, lon) ==
    IF lat = Null \/ lon = Null THEN FALSE
    ELSE IF lat = NaN \/ lon = NaN THEN FALSE
    ELSE /\ lat.v >= ZAGREB_BOUNDS.minLat
         /\ lat.v <= ZAGREB_BOUNDS.maxLat
         /\ lon.v >= ZAGREB_BOUNDS.minLon
         /\ lon.v <= ZAGREB_BOUNDS.maxLon

\* hit.lat ? Number(hit.lat) : null
CoordOf(text) == IF text = "" THEN Null ELSE NumberOf(text)

\* Number.isFinite(lat) ? lat : null
FiniteOrNull(x) == IF x = Null \/ x = NaN THEN Null ELSE x

\* String(raw.field ?? "")
Field(raw, name) == IF name \in DOMAIN raw THEN raw[name] ELSE ""

\* (entry.raw ?? {})
RawOf(entry) == IF "raw" \in DOMAIN entry THEN entry.raw ELSE [absent |-> TRUE]

\* The queries of the model: q |-> q.toLowerCase() and the first token that
\* /\b(\d+[A-Za-z]?)\b/ matches in q ("" when none does).
QueryTable ==
    [q \in {"Ilica 10, Zagreb", "ILICA 10, ZAGREB", "Trg bana Jelacica, Zagreb",
            "Kuca, Ilica 10, Zagreb", "Dom, ILICA 10, ZAGREB"} |->
        IF q = "Ilica 10, Zagreb" \/ q = "ILICA 10, ZAGREB"
        THEN [lower |-> "ilica 10, zagreb", hn |-> "10"]
        ELSE IF q = "Trg bana Jelacica, Zagreb"
        THEN [lower |-> "trg bana jelacica, zagreb", hn |-> ""]
        ELSE IF q = "Kuca, Ilica 10, Zagreb"
        THEN [lower |-> "kuca, ilica 10, zagreb", hn |-> "10"]
        ELSE [lower |-> "dom, ilica 10, zagreb", hn |-> "10"]]

toLowerCase(q) == QueryTable[q].lower
HouseNumberOf(q) == QueryTable[q].hn

\* The display name of a hit, lower-cased, as far as the scores read it:
\* lead is the text before its first comma, mids the tokens that stand
\* between a blank and a comma.
DisplayStartsWith(display, hn) == display.lead = hn
DisplayIncludes(display, hn) == hn \in display.mids

\* Lines 213-253.
scoreGeocodeEntry(entry, query) ==
    IF entry.lat = Null \/ entry.lon = Null \/ entry.lat = NaN \/ entry.lon = NaN
    THEN 0 - NullEntryScore
    ELSE
    LET raw == RawOf(entry)
        category == Field(raw, "category")
        addresstype == Field(raw, "addresstype")
        type == Field(raw, "type")
        hn == HouseNumberOf(query)
        display == entry.display_name
    IN  (IF ~isWithinZagrebBounds(entry.lat, entry.lon) THEN 0 - OutOfBoundsPenalty ELSE 0)
        + (IF category = "building" THEN 300 ELSE 0)
        + (IF addresstype = "building" THEN 250 ELSE 0)
        + (IF category = "place" /\ (type = "square" \/ addresstype = "square")
           THEN 0 - 250 ELSE 0)
        + (IF category = "leisure" /\ type = "park" THEN 0 - 200 ELSE 0)
        + (IF category = "highway" THEN 0 - 250 ELSE 0)
        + (IF entry.osm_type = "way" \/ entry.osm_type = "relation" THEN 50 ELSE 0)
        + (IF hn = "" THEN 0
           ELSE IF DisplayStartsWith(display, hn) THEN 80
           ELSE IF DisplayIncludes(display, hn) THEN 50
           ELSE 0)

\* Mutant of score: a hit outside the bounds is not penalized.
scoreWithoutFence(hit, address) ==
    LET houseNumber == HouseNumberOf(address)
    IN  (IF hit.category = "building" THEN 120 ELSE 0)
        + (IF hit.addresstype = "building" THEN 100 ELSE 0)
        + (IF hit.category = "highway" THEN 0 - 80 ELSE 0)
        + (IF houseNumber = "" THEN 0
           ELSE IF DisplayStartsWith(hit.display_name, houseNumber) THEN 80
           ELSE IF DisplayIncludes(hit.display_name, houseNumber) THEN 50
           ELSE 0)
        + (IF hit.place_rank < 20 THEN hit.place_rank ELSE 20)

\* geocodeNominatim, lines 329-359: the score of one hit of a response.
score(hit, address) ==
    LET houseNumber == HouseNumberOf(address)
    IN  (IF ~isWithinZagrebBounds(CoordOf(hit.lat), CoordOf(hit.lon))
         THEN 0 - OutOfBoundsPenalty ELSE 0)
        + (IF hit.category = "building" THEN 120 ELSE 0)
        + (IF hit.addresstype = "building" THEN 100 ELSE 0)
        + (IF hit.category = "highway" THEN 0 - 80 ELSE 0)
        + (IF houseNumber = "" THEN 0
           ELSE IF DisplayStartsWith(hit.display_name, houseNumber) THEN 80
           ELSE IF DisplayIncludes(hit.display_name, houseNumber) THEN 50
           ELSE 0)
        + (IF hit.place_rank < 20 THEN hit.place_rank ELSE 20)

EmptyEntry == [lat |-> Null, lon |-> Null, raw |-> [empty |-> TRUE]]
StatusEntry(status) == [lat |-> Null, lon |-> Null, raw |-> [status |-> status]]
ErrorEntry(error) == [lat |-> Null, lon |-> Null, raw |-> [error |-> error]]

\* geocodeNominatim, lines 325-375: the entry made of the parsed body.
EntryFor(data, address) ==
    IF Len(data) = 0 THEN EmptyEntry
    ELSE
    LET HitCompare(a, b) == score(b, address) - score(a, address)
        hit == StableSort(data, HitCompare)[1]
    IN  [lat |-> FiniteOrNull(CoordOf(hit.lat)),
         lon |-> FiniteOrNull(CoordOf(hit.lon)),
         display_name |-> hit.display_name,
         osm_type |-> hit.osm_type,
         osm_id |-> hit.osm_id,
         raw |-> hit]

\* The cache file is one JSON object: its properties in insertion order.
CacheHas(c, key) == \E k \in DOMAIN c : c[k].key = key
CacheGet(c, key) == c[CHOOSE k \in DOMAIN c : c[k].key = key].entry
CachePut(c, key, entry) ==
    IF CacheHas(c, key)
    THEN [k \in DOMAIN c |-> IF c[k].key = key THEN [key |-> key, entry |-> entry] ELSE c[k]]
    ELSE Append(c, [key |-> key, entry |-> entry])

Candidate(query, entry) ==
    [query |-> query, entry |-> entry, score |-> scoreGeocodeEntry(entry, query)]

\* Lines 461-466 of main.
looksLikeLandmark(scored) ==
    IF Len(scored) = 0 THEN FALSE
    ELSE
    LET ByScore(a, b) == b.score - a.score
        bestRaw == RawOf(StableSort(scored, ByScore)[1].entry)
    IN  Field(bestRaw, "category") = "place" /\ Field(bestRaw, "type") = "square"

\* queries.indexOf(q), counted from 0.
IndexOf(queries, q) ==
    IF \E k \in DOMAIN queries : queries[k] = q
    THEN (CHOOSE k \in DOMAIN queries :
             queries[k] = q /\ \A j \in 1..(k - 1) : queries[j] # q) - 1
    ELSE 0 - 1

\* Lines 489-497 of main: the chosen candidate, or NoCand.
ChooseCandidate(queries, scored) ==
    LET CandCompare(a, b) ==
            IF b.score # a.score THEN b.score - a.score
            ELSE IndexOf(queries, a.query) - IndexOf(queries, b.query)
    IN  IF Len(scored) = 0 THEN NoCand ELSE StableSort(scored, CandCompare)[1]

\* String(n) of a coordinate.
StringOf(x) == CHOOSE t \in DOMAIN DecimalText : DecimalText[t] = x.v

\* Lines 494-523 of main: the row pushed to the output for record r.
OutRow(r, scored) ==
    LET chosen == ChooseCandidate(r.queries, scored)
        entry == IF chosen = NoCand THEN [lat |-> Null, lon |-> Null] ELSE chosen.entry
        raw == RawOf(entry)
    IN  [id |-> r.id,
         lat |-> IF entry.lat = Null THEN "" ELSE StringOf(entry.lat),
         lon |-> IF entry.lon = Null THEN "" ELSE StringOf(entry.lon),
         geocode_query |-> IF chosen = NoCand THEN "" ELSE chosen.query,
         geocode_osm_type |-> Field(entry, "osm_type"),
         geocode_osm_id |-> Field(entry, "osm_id"),
         geocode_category |-> Field(raw, "category"),
         geocode_addresstype |-> Field(raw, "addresstype")]

\* normalizeAddress(`${r.name}, ${queries[0]}`)
NameQuery(r) == r.name \o ", " \o r.queries[1]

MkHit(lat, lon, category, type, addresstype, osm_type, osm_id, display, place_rank) ==
    [lat |-> lat, lon |-> lon, category |-> category, type |-> type,
     addresstype |-> addresstype, osm_type |-> osm_type, osm_id |-> osm_id,
     display_name |-> display, place_rank |-> place_rank]

HitBuilding == MkHit("45.81", "15.97", "building", "yes", "building", "way", "21",
                     [lead |-> "10", mids |-> {}], 30)
HitSquare == MkHit("45.81", "15.97", "place", "square", "square", "node", "22",
                   [lead |-> "trg", mids |-> {}], 25)
HitElsewhere == MkHit("45.33", "14.44", "building", "yes", "building", "way", "29",
                      [lead |-> "10", mids |-> {}], 30)
HitRoad == MkHit("45.81", "15.97", "highway", "residential", "road", "way", "24",
                 [lead |-> "ilica", mids |-> {"10"}], 26)

\* The parsed bodies the geocoding service can answer a query with.
GeocodeResponses ==
    {<<>>, <<HitBuilding>>, <<HitSquare>>, <<HitElsewhere, HitBuilding>>, <<HitElsewhere>>,
     <<HitRoad, HitSquare>>}

\* The canonical records the stage is run on, with the queries
\* addressQueriesForRow makes of them: the second record spells the first
\* address in capitals, the third has no address with city context.
RecordKinds ==
    {[name |-> "Kuca", queries |-> <<"Ilica 10, Zagreb">>],
     [name |-> "Dom", queries |-> <<"ILICA 10, ZAGREB", "Trg bana Jelacica, Zagreb">>],
     [name |-> "Vrt", queries |-> <<>>]}

CurRecord == records[rowIdx]

\* The query main is looking up: one of the record's queries, then the
\* name-assisted query.
CurQuery ==
    IF qIdx <= Len(CurRecord.queries) THEN CurRecord.queries[qIdx] ELSE NameQuery(CurRecord)

InitGeocode ==
    /\ \E n \in 1..MaxRecords :
         \E kinds \in [1..n -> RecordKinds] :
            records = [k \in 1..n |-> [id |-> RowIds[k]] @@ kinds[k]]
    /\ run = 1
    /\ rowIdx = 1
    /\ qIdx = 1
    /\ pc = "query"
    /\ attempt = 1
    /\ lastOutcome = "none"
    /\ res = "null"
    /\ geocodeCache = <<>>
    /\ scoredCandidates = <<>>
    /\ out = <<>>
    /\ requests = 0
    /\ pacing = Unpaced
    /\ hits = <<>>
    /\ FootprintIdle

\* main pushes the output row of the current record and turns to the next.
EmitRow(scored) ==
    /\ out' = Append(out, OutRow(CurRecord, scored))
    /\ rowIdx' = rowIdx + 1
    /\ qIdx' = 1
    /\ scoredCandidates' = <<>>

\* Lines 450-487 of main, after the entry of the current query is known: the
\* candidate is pushed; the next query follows, or the name-assisted query
\* when the best so far looks like a landmark, or the output row.
AfterLookup(entry) ==
    LET scored == Append(scoredCandidates, Candidate(CurQuery, entry))
        n == Len(CurRecord.queries)
    IN  /\ attempt' = 1
        /\ lastOutcome' = "none"
        /\ res' = "null"
        /\ pc' = pc
        /\ IF qIdx < n \/ (qIdx = n /\ looksLikeLandmark(scored))
           THEN /\ qIdx' = qIdx + 1
                /\ scoredCandidates' = scored
                /\ UNCHANGED <<rowIdx, out>>
           ELSE EmitRow(scored)

\* geocodeNominatim returned entry: main stores it in the cache, writes the
\* cache file and sleeps.
Returned(entry) ==
    /\ geocodeCache' = CachePut(geocodeCache, toLowerCase(CurQuery), entry)
    /\ pacing' = Sent(pacing, RateLimit(RATE_LIMIT_MS))
    /\ AfterLookup(entry)

Looking ==
    /\ pc = "query"
    /\ rowIdx <= Len(records)
    /\ Len(CurRecord.queries) > 0

Missing == Looking /\ ~CacheHas(geocodeCache, toLowerCase(CurQuery))

\* A record without queries: no candidate, the output row is empty.
GeocodeNoQueries ==
    /\ pc = "query"
    /\ rowIdx <= Len(records)
    /\ Len(CurRecord.queries) = 0
    /\ EmitRow(<<>>)
    /\ UNCHANGED <<run, pc, attempt, lastOutcome, res, geocodeCache, requests, records,
                   hits, fpOnly, pickVars, pacing>>

\* Lines 441-452: the cache holds an entry for the query.
GeocodeCacheHit ==
    /\ Looking
    /\ CacheHas(geocodeCache, toLowerCase(CurQuery))
    /\ AfterLookup(CacheGet(geocodeCache, toLowerCase(CurQuery)))
    /\ UNCHANGED <<run, geocodeCache, requests, records, hits, fpOnly, pickVars, pacing>>

\* geocodeNominatim: the service answers 200 with a body that parses to d.
GeocodeOk ==
    /\ Missing
    /\ \E d \in GeocodeResponses : Returned(EntryFor(d, CurQuery))
    /\ requests' = CountTo(requests, MaxCounted)
    /\ UNCHANGED <<run, records, hits, fpOnly, pickVars>>

\* Lines 318-323: the service answers 200 with a body that is not JSON.
GeocodeInvalidJson ==
    /\ Missing
    /\ Returned(ErrorEntry("invalid_json"))
    /\ requests' = CountTo(requests, MaxCounted)
    /\ UNCHANGED <<run, records, hits, fpOnly, pickVars>>

\* Lines 296-304: a retryable status: sleep and try again, or return the
\* failure when it was the last attempt.
GeocodeRetryable ==
    /\ Missing
    /\ requests' = CountTo(requests, MaxCounted)
    /\ IF attempt < GeocodeMaxAttempts
       THEN /\ attempt' = attempt + 1
            /\ lastOutcome' = "retryable"
            /\ res' = "not_ok"
            /\ pacing' = Sent(pacing, Backoff(attempt))
            /\ UNCHANGED <<rowIdx, qIdx, pc, geocodeCache, scoredCandidates, out>>
       ELSE Returned(StatusEntry("retryable"))
    /\ UNCHANGED <<run, records, hits, fpOnly, pickVars>>

\* Lines 296-304: any other status: the failure is returned at once.
GeocodeNonRetryable ==
    /\ Missing
    /\ requests' = CountTo(requests, MaxCounted)
    /\ Returned(StatusEntry("non_retryable"))
    /\ UNCHANGED <<run, records, hits, fpOnly, pickVars>>

\* Lines 307-323: fetch throws: sleep and try again; after the last attempt
\* the loop ends, without a response (the error is returned) or with the
\* not-ok response of an earlier attempt, whose body is then parsed: a body
\* that is not JSON gives the invalid_json failure.
GeocodeThrows ==
    /\ Missing
    /\ requests' = CountTo(requests, MaxCounted)
    /\ IF attempt < GeocodeMaxAttempts
       THEN /\ attempt' = attempt + 1
            /\ lastOutcome' = "threw"
            /\ pacing' = Sent(pacing, Backoff(attempt))
            /\ UNCHANGED <<rowIdx, qIdx, pc, res, geocodeCache, scoredCandidates, out>>
       ELSE IF res = "null" THEN Returned(ErrorEntry("fetch failed"))
       ELSE Returned(ErrorEntry("invalid_json"))
    /\ UNCHANGED <<run, records, hits, fpOnly, pickVars>>

\* Lines 325-361: as before, but the body of the earlier not-ok response is
\* a JSON object: spreading it throws, the error leaves main and the run
\* ends without output.
GeocodeThrowsAborts ==
    /\ Missing
    /\ attempt = GeocodeMaxAttempts
    /\ res # "null"
    /\ requests' = CountTo(requests, MaxCounted)
    /\ pc' = "aborted"
    /\ pacing' = Sent(pacing, NoSleep)
    /\ UNCHANGED <<run, rowIdx, qIdx, attempt, lastOutcome, res, geocodeCache,
                   scoredCandidates, out, records, hits, fpOnly, pickVars>>

\* The loop of main has passed the last record and the CSV is written.
GeocodeEndRun ==
    /\ pc = "query"
    /\ rowIdx > Len(records)
    /\ pc' = "geocoded"
    /\ UNCHANGED <<run, rowIdx, qIdx, attempt, lastOutcome, res, geocodeCache,
                   scoredCandidates, out, requests, records, hits, fpOnly, pickVars, pacing>>

\* The stage is run again on the same records with the cache left behind.
GeocodeRerun ==
    /\ pc = "geocoded"
    /\ run = 1
    /\ run' = 2
    /\ rowIdx' = 1
    /\ pc' = "query"
    /\ out' = <<>>
    /\ requests' = 0
    /\ pacing' = Unpaced
    /\ UNCHANGED <<qIdx, attempt, lastOutcome, res, geocodeCache, scoredCandidates,
                   records, hits, fpOnly, pickVars>>

-----------------------------------------------------------------------------
(* One stage of the pipeline is run, and run again                         *)

Init == (InitFootprint \/ InitGeocode) /\ PickIdle

Next ==
    \/ SkipRow
    \/ BeginRow
    \/ CacheHit
    \/ FetchOk
    \/ FetchRetryable
    \/ FetchNonRetryable
    \/ FetchThrows
    \/ EndRun
    \/ Rerun
    \/ BuildGeojson
    \/ GeocodeNoQueries
    \/ GeocodeCacheHit
    \/ GeocodeOk
    \/ GeocodeInvalidJson
    \/ GeocodeRetryable
    \/ GeocodeNonRetryable
    \/ GeocodeThrows
    \/ GeocodeThrowsAborts
    \/ GeocodeEndRun
    \/ GeocodeRerun

Spec == Init /\ [][Next]_vars


-----------------------------------------------------------------------------
(* The footprint stage is run again after the geocode of a record changed  *)

\* The coordinate the geocode stage resolves a record to the second time.
MovedTo == [lat |-> "45.75", lon |-> "16.12"]

\* main, lines 1008-1057: the stage is run again with the cache left
\* behind, on a geocoded CSV in which every resolved record has another
\* coordinate.
RerunMoved ==
    /\ pc = "done"
    /\ run = 1
    /\ run' = 2
    /\ rows' = [k \in DOMAIN rows |->
                  IF rows[k].lat \in DOMAIN DecimalText /\ rows[k].lon \in DOMAIN DecimalText
                  THEN [rows[k] EXCEPT !.lat = MovedTo.lat, !.lon = MovedTo.lon]
                  ELSE rows[k]]
    /\ rowIdx' = 1
    /\ pc' = "row"
    /\ results' = <<>>
    /\ counts' = ZeroCounts
    /\ geometries' = <<>>
    /\ mapFeatures' = <<>>
    /\ requests' = 0
    /\ pacing' = Unpaced
    /\ UNCHANGED <<step, attempt, lastOutcome, radii_tried, cache, queried, failedCalls,
                   pickVars, geoVars>>

NextMoved ==
    \/ SkipRow
    \/ BeginRow
    \/ CacheHit
    \/ FetchOk
    \/ FetchRetryable
    \/ FetchNonRetryable
    \/ FetchThrows
    \/ EndRun
    \/ RerunMoved
    \/ BuildGeojson

InitMoved == InitFootprint /\ PickIdle

SpecMoved == InitMoved /\ [][NextMoved]_vars

-----------------------------------------------------------------------------
(* The ranking of geocode hits, for every class of hit                     *)

\* Category, type and address type of a hit.
RankClasses ==
    {[category |-> "building", type |-> "yes", addresstype |-> "building"],
     [category |-> "place", type |-> "house", addresstype |-> "place"],
     [category |-> "place", type |-> "square", addresstype |-> "square"],
     [category |-> "place", type |-> "locality", addresstype |-> "square"],
     [category |-> "highway", type |-> "residential", addresstype |-> "road"],
     [category |-> "leisure", type |-> "park", addresstype |-> "park"],
     [category |-> "amenity", type |-> "cafe", addresstype |-> "building"],
     [category |-> "amenity", type |-> "cafe", addresstype |-> "amenity"]}

\* Coordinates inside the bounds, on their corner, outside them, and with
\* the latitude inside and the longitude outside.
RankCoords ==
    {[lat |-> "45.81", lon |-> "15.97"], [lat |-> "45.75", lon |-> "16.12"],
     [lat |-> "45.33", lon |-> "14.44"], [lat |-> "45.81", lon |-> "14.44"]}

\* Display names that start with the house number 10, hold it further on,
\* and do not hold it.
RankDisplays ==
    {[lead |-> "10", mids |-> {}], [lead |-> "ilica", mids |-> {"10"}],
     [lead |-> "trg", mids |-> {}]}

RankHits ==
    {MkHit(c.lat, c.lon, k.category, k.type, k.addresstype, t, "25", d, rank) :
        c \in RankCoords, k \in RankClasses, t \in {"node", "way"}, d \in RankDisplays,
        rank \in {0, 30}}

\* One record with two queries, the first with a house number.
RankRecord ==
    [id |-> "zg/1", name |-> "Dom",
     queries |-> <<"ILICA 10, ZAGREB", "Trg bana Jelacica, Zagreb">>]

InitRank ==
    /\ records = <<RankRecord>>
    /\ run = 1 /\ rowIdx = 1 /\ qIdx = 1 /\ pc = "rank" /\ attempt = 1
    /\ lastOutcome = "none" /\ requests = 0 /\ pacing = Unpaced /\ res = "null"
    /\ geocodeCache = <<>> /\ scoredCandidates = <<>> /\ out = <<>> /\ hits = <<>>
    /\ FootprintIdle
    /\ PickIdle

\* geocodeNominatim: the first query is answered with two hits, of which
\* one is returned.
RankFirst ==
    /\ pc = "rank"
    /\ qIdx = 1
    /\ hits = <<>>
    /\ \E a \in RankHits, b \in RankHits :
          /\ hits' = <<a, b>>
          /\ scoredCandidates' = <<Candidate(CurQuery, EntryFor(<<a, b>>, CurQuery))>>
    /\ UNCHANGED <<records, run, rowIdx, qIdx, pc, attempt, lastOutcome, requests, res,
                   geocodeCache, out, fpOnly, pickVars, pacing>>

\* geocodeNominatim: the second query is answered with one hit.
RankSecond ==
    /\ pc = "rank"
    /\ qIdx = 2
    /\ hits = <<>>
    /\ \E c \in RankHits :
          /\ hits' = <<c>>
          /\ scoredCandidates' =
                Append(scoredCandidates, Candidate(CurQuery, EntryFor(<<c>>, CurQuery)))
    /\ UNCHANGED <<records, run, rowIdx, qIdx, pc, attempt, lastOutcome, requests, res,
                   geocodeCache, out, fpOnly, pickVars, pacing>>

\* main has pushed the candidate: it turns to the next query, or after the
\* last one chooses among the candidates of the record.
RankNext ==
    /\ pc = "rank"
    /\ hits # <<>>
    /\ hits' = <<>>
    /\ IF qIdx < Len(CurRecord.queries)
       THEN /\ qIdx' = qIdx + 1
            /\ UNCHANGED <<pc, out>>
       ELSE /\ out' = <<OutRow(CurRecord, scoredCandidates)>>
            /\ pc' = "chosen"
            /\ UNCHANGED qIdx
    /\ UNCHANGED <<records, run, rowIdx, attempt, lastOutcome, requests, res,
                   geocodeCache, scoredCandidates, fpOnly, pickVars, pacing>>

NextRank == RankFirst \/ RankSecond \/ RankNext

SpecRank == InitRank /\ [][NextRank]_vars

-----------------------------------------------------------------------------
(* Replay of cached responses in another order                             *)

\* The entries the cache can hold for a query.
ReplayEntries ==
    {EntryFor(<<h>>, "Ilica 10, Zagreb") : h \in {HitBuilding, HitSquare, HitElsewhere, HitRoad}}
    \cup {EmptyEntry, StatusEntry("non_retryable")}

\* The keys main looks up for record r.
KeysOf(r) ==
    [k \in 1..(Len(r.queries) + 1) |->
        IF k <= Len(r.queries) THEN toLowerCase(r.queries[k]) ELSE toLowerCase(NameQuery(r))]

\* s in the order given by the permutation p of its indices.
Reordered(s, p) == [k \in DOMAIN s |-> s[p[k]]]

\* The geocode stage starts on one record with every entry in the cache.
InitReplay ==
    /\ \E kind \in {r \in RecordKinds : Len(r.queries) > 0} :
          /\ records = <<[id |-> RowIds[1]] @@ kind>>
          /\ \E entries \in [DOMAIN KeysOf(kind) -> ReplayEntries] :
                geocodeCache = [k \in DOMAIN KeysOf(kind) |->
                                   [key |-> KeysOf(kind)[k], entry |-> entries[k]]]
    /\ run = 1 /\ rowIdx = 1 /\ qIdx = 1 /\ pc = "query" /\ attempt = 1
    /\ lastOutcome = "none" /\ requests = 0 /\ pacing = Unpaced /\ res = "null"
    /\ scoredCandidates = <<>> /\ out = <<>> /\ hits = <<>>
    /\ FootprintIdle
    /\ PickIdle

\* The stage is run again with the entries of the cache file in another
\* order; the output of the first run is kept for comparison.
ReplayReordered ==
    /\ pc = "geocoded"
    /\ run = 1
    /\ \E p \in Permutations(DOMAIN geocodeCache) :
          geocodeCache' = Reordered(geocodeCache, p)
    /\ run' = 2
    /\ rowIdx' = 1
    /\ pc' = "query"
    /\ UNCHANGED <<qIdx, attempt, lastOutcome, res, scoredCandidates, out, requests,
                   records, hits, fpOnly, pickVars, pacing>>

MaxReplay == 3

\* The cached response holds one more feature: a building, a part or a
\* typed relation, without address tags or with the record's address,
\* containing the point or not, all of one shape, so that candidates tie.
AddReplayFeature ==
    /\ pc = "idle"
    /\ picked = NoPick
    /\ Len(features) < MaxReplay
    /\ \E kind \in TagKinds, c \in BOOLEAN,
          addr \in {[hn |-> "", street |-> ""], [hn |-> "10", street |-> "ilica"]} :
          features' = Append(features, MkFeature(10 + Len(features), kind, addr, c,
                                                 [dist |-> 20, area |-> 1000]))
    /\ UNCHANGED <<picked, repicked, fpVars, geoVars,
                   canonical, addressQueries>>

\* The radius step runs again on the cached response with its features in
\* another order.
RepickReordered ==
    /\ pc = "idle"
    /\ picked # NoPick
    /\ repicked = NoPick
    /\ \E p \in Permutations(DOMAIN features) :
          /\ features' = Reordered(features, p)
          /\ repicked' = RadiusResult(features', PickAddrs, RADIUS_M, <<RADIUS_M>>)
    /\ UNCHANGED <<picked, fpVars, geoVars,
                   canonical, addressQueries>>

InitOrder == InitPick \/ InitReplay

NextOrder ==
    \/ AddReplayFeature
    \/ ApplyRadiusStep
    \/ RepickReordered
    \/ GeocodeCacheHit
    \/ GeocodeEndRun
    \/ ReplayReordered

SpecOrder == InitOrder /\ [][NextOrder]_vars

-----------------------------------------------------------------------------
(* The address query generator: addressQueriesForRow of scripts/geocode.ts *)
(*                                                                         *)
(* A string is the sequence of its words; "," and "/" are words of their   *)
(* own and the word "" stands for one blank more than the single blank     *)
(* that separates two words.                                               *)

Blank == ""

\* The words of the model: w.toLowerCase(), the class of characters w is
\* made of, and the endings of w.toLowerCase().
WordTable ==
    ("Teslina" :> [lower |-> "teslina", class |-> "letters", endings |-> {"a", "na", "ina"}])
    @@ ("TESLINA" :> [lower |-> "teslina", class |-> "letters", endings |-> {"a", "na", "ina"}])
    @@ ("Ilica" :> [lower |-> "ilica", class |-> "letters", endings |-> {"a", "ca", "ica"}])
    @@ ("ulica" :> [lower |-> "ulica", class |-> "letters", endings |-> {"a", "ca", "ica"}])
    @@ ("Trg" :> [lower |-> "trg", class |-> "letters", endings |-> {"g", "rg", "trg"}])
    @@ ("bana" :> [lower |-> "bana", class |-> "letters", endings |-> {"a", "na", "ana"}])
    @@ ("Zagreb" :> [lower |-> "zagreb", class |-> "letters", endings |-> {"b", "eb", "reb"}])
    @@ ("ZAGREB" :> [lower |-> "zagreb", class |-> "letters", endings |-> {"b", "eb", "reb"}])
    @@ ("10" :> [lower |-> "10", class |-> "digits", endings |-> {"0", "10"}])
    @@ ("14" :> [lower |-> "14", class |-> "digits", endings |-> {"4", "14"}])
    @@ ("," :> [lower |-> ",", class |-> "comma", endings |-> {","}])
    @@ ("/" :> [lower |-> "/", class |-> "slash", endings |-> {"/"}])
    @@ (Blank :> [lower |-> Blank, class |-> "blank", endings |-> {}])

\* s.toLowerCase()
LowerOf(s) == [k \in DOMAIN s |-> WordTable[s[k]].lower]

\* word.toLowerCase().endsWith(suffix)
EndsWith(word, suffix) == suffix \in WordTable[word].endings

\* s.trim(): the blanks at both ends go.
RECURSIVE TrimLeft(_)
TrimLeft(s) == IF s # <<>> /\ Head(s) = Blank THEN TrimLeft(Tail(s)) ELSE s

RECURSIVE TrimRight(_)
TrimRight(s) ==
    IF s # <<>> /\ s[Len(s)] = Blank THEN TrimRight(SubSeq(s, 1, Len(s) - 1)) ELSE s

Trim(s) == TrimRight(TrimLeft(s))

\* normalizeAddress: a.trim().replace(/\s+/g, " "), no blank is left.
normalizeAddress(a) ==
    LET IsWord(w) == w # Blank IN FilterSeq(a, IsWord)

\* s.split("/")
RECURSIVE SplitSlash(_)
SplitSlash(s) ==
    IF \E k \in DOMAIN s : s[k] = "/"
    THEN LET i == CHOOSE k \in DOMAIN s : s[k] = "/" /\ \A j \in 1..(k - 1) : s[j] # "/"
         IN  <<SubSeq(s, 1, i - 1)>> \o SplitSlash(SubSeq(s, i + 1, Len(s)))
    ELSE <<s>>

\* Lines 71-95. The two patterns with a letter outside ASCII (lines 91-92)
\* match no word of WordTable and are left out.
looksLikeCroatianGenitiveAdjective(word) ==
    IF ~EndsWith(word, "a") THEN FALSE
    ELSE IF EndsWith(word, "ica") THEN FALSE
    ELSE \E pattern \in {"eva", "ova", "ina", "ska"} : EndsWith(word, pattern)

streetTypeSuffixes ==
    {"ulica", "ul.", "trg", "cesta", "avenija", "put", "prolaz", "stube", "park", "aleja",
     "obala", "prilaz", "odvojak"}

\* Lines 109-157: the word "ulica" is put between a street name of one
\* word that looks like a genitive adjective and the house number that
\* follows it, when the address holds no street type word and the house
\* number is followed by a comma or by nothing.
appendUlicaIfNeeded(address) ==
    LET hasStreetType ==
            \E k \in DOMAIN address : WordTable[address[k]].lower \in streetTypeSuffixes
        InName(w) == WordTable[w].class \in {"letters", "blank"}
        IsName(w) == WordTable[w].class = "letters"
        \* the first word that is neither letters nor blank
        rest == {k \in DOMAIN address : ~InName(address[k])}
        n == IF rest = {} THEN 0 ELSE CHOOSE k \in rest : \A j \in rest : k <= j
        match ==
            /\ n > 1
            /\ WordTable[address[n]].class = "digits"
            /\ (n = Len(address) \/ address[n + 1] = ",")
            /\ \E k \in 1..(n - 1) : IsName(address[k])
        words == FilterSeq(SubSeq(address, 1, n - 1), IsName)
        at == CHOOSE k \in 1..(n - 1) : IsName(address[k])
    IN  IF hasStreetType THEN address
        ELSE IF match /\ Len(words) = 1 /\ looksLikeCroatianGenitiveAdjective(words[1])
        THEN <<words[1], "ulica">> \o SubSeq(address, at + 1, Len(address))
        ELSE address

\* /trg bana/i.test(p)
MentionsTrgBana(p) ==
    \E k \in 1..(Len(p) - 1) :
        WordTable[p[k]].lower = "trg" /\ WordTable[p[k + 1]].lower = "bana"

\* Lines 159-165.
choosePrimaryAddress(addr) ==
    LET parts == [k \in DOMAIN SplitSlash(addr) |-> Trim(SplitSlash(addr)[k])]
        trg == {k \in DOMAIN parts : MentionsTrgBana(parts[k])}
    IN  IF trg # {} THEN parts[CHOOSE k \in trg : \A j \in trg : k <= j] ELSE parts[1]

\* Lines 176-187: the values without the empty ones and without those that
\* equal an earlier one ignoring case, trimmed, in first-seen order.
RECURSIVE UniqueFrom(_, _, _)
UniqueFrom(values, seen, acc) ==
    IF values = <<>> THEN acc
    ELSE LET v == Trim(Head(values))
             k == LowerOf(v)
         IN  IF k = <<>> \/ k \in seen THEN UniqueFrom(Tail(values), seen, acc)
             ELSE UniqueFrom(Tail(values), seen \cup {k}, Append(acc, v))

uniqueCaseInsensitive(values) == UniqueFrom(values, {}, <<>>)

\* safeJsonParse(r.addresses_json) of a field that is absent or does not
\* parse.
Unparsed == [parsed |-> FALSE, parts |-> <<>>]

\* /zagreb|croatia/i.test(q)
MentionsCity(q) == \E k \in DOMAIN q : WordTable[q[k]].lower \in {"zagreb", "croatia"}

\* q.includes("/")
IncludesSlash(q) == \E k \in DOMAIN q : q[k] = "/"

\* Lines 191-211.
addressQueriesForRow(r) ==
    LET NonEmpty(x) == x # <<>>
        fromJson ==
            IF ~r.addresses_json.parsed THEN <<>>
            ELSE FilterSeq([k \in DOMAIN r.addresses_json.parts |->
                               r.addresses_json.parts[k].normalized], NonEmpty)
        split == SplitSlash(r.address)
        fromSplit == [k \in DOMAIN split |-> normalizeAddress(split[k])]
        primary ==
            IF r.primary_address # <<>> THEN normalizeAddress(r.primary_address)
            ELSE normalizeAddress(choosePrimaryAddress(r.address))
        combined == uniqueCaseInsensitive(<<primary>> \o fromJson \o fromSplit)
        Kept(q) == q # <<>> /\ ~IncludesSlash(q) /\ MentionsCity(q)
        filtered == FilterSeq(combined, Kept)
    IN  [k \in DOMAIN filtered |-> appendUlicaIfNeeded(filtered[k])]

\* The addresses a record is made of: a colloquial street name with house
\* number and city, the same in capitals, with a blank too many and with
\* the street word, an address without city, one with it, a square, and
\* the empty text.
Segments ==
    {<<"Teslina", "14", ",", "Zagreb">>,
     <<"TESLINA", "14", ",", "ZAGREB">>,
     <<"Teslina", Blank, "14", ",", "Zagreb">>,
     <<"Teslina", "ulica", "14", ",", "Zagreb">>,
     <<"Ilica", "10">>,
     <<"Ilica", "10", ",", "Zagreb">>,
     <<"Trg", "bana", ",", "Zagreb">>,
     <<>>}

MaxSegments == 2
MaxParts == 2

\* The addresses of the canonical records: up to MaxSegments segments
\* joined by " / ", the last one ending in the city that normalization
\* puts after the whole text.
RECURSIVE JoinSlash(_)
JoinSlash(segs) ==
    IF Len(segs) = 1 THEN segs[1] ELSE segs[1] \o <<"/">> \o JoinSlash(Tail(segs))

Addresses ==
    {JoinSlash(segs) :
        segs \in {ss \in UNION {[1..n -> Segments] : n \in 1..MaxSegments} :
                     MentionsCity(ss[Len(ss)])}}

\* The values of addresses_json: absent, or up to MaxParts parts.
PartLists ==
    {Unparsed} \cup
    {[parsed |-> TRUE, parts |-> [k \in DOMAIN ps |-> [normalized |-> ps[k]]]] :
        ps \in UNION {[1..n -> Segments] : n \in 0..MaxParts}}

InitQueries ==
    /\ \E a \in Addresses, p \in Segments, j \in PartLists :
          canonical = [address |-> a, primary_address |-> p, addresses_json |-> j]
    /\ addressQueries = <<>>
    /\ features = <<>> /\ picked = NoPick /\ repicked = NoPick
    /\ StageIdle /\ FootprintIdle /\ GeocodeIdle

\* main, line 436: the queries of the record are generated.
GenerateQueries ==
    /\ pc = "idle"
    /\ canonical # NoRecord
    /\ addressQueries' = addressQueriesForRow(canonical)
    /\ pc' = "generated"
    /\ UNCHANGED <<features, picked, repicked, canonical, run, rowIdx, attempt, lastOutcome,
                   requests, pacing, fpOnly, geoVars>>

NextQueries == GenerateQueries

SpecQueries == InitQueries /\ [][NextQueries]_vars

-----------------------------------------------------------------------------
(* Properties of pickBest and mergeBuildingParts                           *)

\* The features of the response that pickBest scores.
ValidFeatures == SelectSeq(toFeatures(features), LAMBDA f : validateGeometry(GeometryOf(f)))

\* The winner of the pick and the runner-up.
Winner == picked.topCandidates[1]
RunnerUp == picked.topCandidates[2]

\* C3: whenever a valid candidate contains the target point, the selected
\* candidate contains the point.
C3_ContainmentPriority ==
    (/\ picked # NoPick
     /\ \E i \in DOMAIN ValidFeatures : ValidFeatures[i].contains)
    => Winner.contains

\* C3 witness: a containing winner without address bonus was selected over
\* a non-containing candidate with the full address bonus.
C3_Witness ==
    /\ picked # NoPick
    /\ Winner.contains
    /\ Winner.addr_bonus = 0
    /\ \E i \in DOMAIN ValidFeatures :
          /\ ~ValidFeatures[i].contains
          /\ addrMatchesMulti(ValidFeatures[i].props, PickAddrs) = HouseNumberBonus + StreetBonus

\* The building parts of the response inside the proximity window and the
\* score window of the winner.
PartsInWindow ==
    {i \in DOMAIN ValidFeatures :
        /\ tagClassFromProps(ValidFeatures[i].props) = "building_part"
        /\ ValidFeatures[i].dist <= PartsDistMax
        /\ ScoreFeature(ValidFeatures[i], PickAddrs).score >= Winner.score - PartsScoreWindow}

\* C4: when the winner is a building part and three building-part polygons
\* lie within the proximity and score windows, the result is one
\* MultiPolygon of exactly three polygons whose references are the three.
C4_ThreePartsMerged ==
    (/\ picked # NoPick
     /\ Winner.tag_class = "building_part"
     /\ Cardinality(PartsInWindow) = 3)
    => /\ picked.geometry.type = "MultiPolygon"
       /\ Len(picked.geometry.polys) = 3
       /\ {picked.osm_refs[k] : k \in DOMAIN picked.osm_refs}
            = {ValidFeatures[i].ref : i \in PartsInWindow}

\* C5: when the two top-ranked candidates both miss the point, the best
\* has an address bonus below 60 and the scores differ by less than 80, the
\* result is low / ambiguous_top2, the status is ambiguous and the geometry
\* is the top candidate's.
AmbiguousTop2 ==
    /\ picked # NoPick
    /\ Len(picked.topCandidates) >= 2
    /\ ~Winner.contains
    /\ ~RunnerUp.contains
    /\ Winner.addr_bonus < StrongAddrBonus
    /\ Abs(Winner.score - RunnerUp.score) < AmbiguityMargin

C15_ConfidenceGrades ==
    picked # NoPick
    => LET contains == Winner.contains
           strong == Winner.addr_bonus >= StrongAddrBonus
       IN  /\ picked.confidence \in {"high", "medium", "low"}
           /\ picked.confidence = "high" <=> (contains /\ strong)
           /\ picked.confidence = "medium" <=> (contains # strong)
           /\ picked.confidence = "low" <=> (~contains /\ ~strong)
           /\ picked.strategy.pick = "ambiguous_top2" => picked.confidence = "low"
           /\ contains # strong => picked.strategy.pick # "ambiguous_top2"

\* C15 witness: the winner misses the point and has the street bonus only,
\* the runner-up scores less than 80 below it, and the confidence is medium.
C15_Witness ==
    /\ picked # NoPick
    /\ Len(picked.topCandidates) >= 2
    /\ ~Winner.contains
    /\ Winner.addr_bonus = StreetBonus
    /\ Abs(Winner.score - RunnerUp.score) < AmbiguityMargin
    /\ picked.confidence = "medium"

-----------------------------------------------------------------------------
(* Properties of the footprint stage                                       *)

\* The row a result belongs to: results are pushed in row order.
RowOf(k) == rows[k]

\* The coordinate of the row is decimal text.
Usable(r) == r.lat \in DOMAIN DecimalText /\ r.lon \in DOMAIN DecimalText

\* The valid polygons of a stored response.
ValidIn(resp) == SelectSeq(toFeatures(resp), LAMBDA f : validateGeometry(GeometryOf(f)))

\* The object a row's override names.
OverrideRef(r) == [t |-> r.override.osm_type, n |-> RefNumber(r.override.osm_id)]

\* C1: for every row with a usable coordinate and an override whose object
\* the service returned as a valid polygon, the result reports the geometry
\* and the reference of that object.
C1_OverrideSelected ==
    \A k \in DOMAIN results :
        LET r == RowOf(k)
            path == Sources(r)[1].path
        IN  (/\ Usable(r)
             /\ r.override # NoOverride
             /\ path \in DOMAIN cache
             /\ \E i \in DOMAIN ValidIn(cache[path]) :
                   ValidIn(cache[path])[i].ref = OverrideRef(r))
            => /\ results[k].osm_refs = <<OverrideRef(r)>>
               /\ \E i \in DOMAIN ValidIn(cache[path]) :
                     /\ ValidIn(cache[path])[i].ref = OverrideRef(r)
                     /\ results[k].geometry = GeometryOf(ValidIn(cache[path])[i])

\* C2: every row that the geocode stage left unresolved (empty lat and lon)
\* ends as skipped_no_coords with null geometry and empty radii_tried.
C2_UnresolvedSkipped ==
    \A k \in DOMAIN results :
        (RowOf(k).lat = "" /\ RowOf(k).lon = "")
        => /\ results[k].status = "skipped_no_coords"
           /\ results[k].geometry = NoCand
           /\ results[k].radii_tried = <<>>

\* The ladder of radii of a row: 350 is added for a geocode classified as a
\* place and not as a building.
LadderOf(r) ==
    IF r.geocode_category = "place" /\ r.geocode_addresstype # "building"
    THEN <<80, 120, 160, 200, 350>>
    ELSE <<80, 120, 160, 200>>

\* No source of the row gave a valid candidate: its request failed or its
\* response holds no valid polygon.
NothingFound(r) ==
    \A j \in DOMAIN Sources(r) :
        Sources(r)[j].path \in DOMAIN cache => Len(ValidIn(cache[Sources(r)[j].path])) = 0

\* C6: for every row with a usable coordinate for which neither a direct
\* fetch nor a radius step gave a valid candidate, the status is not_found,
\* the geometry is null and radii_tried is the full ladder of the row.
C6_NotFoundFullLadder ==
    \A k \in DOMAIN results :
        (Usable(RowOf(k)) /\ NothingFound(RowOf(k)))
        => /\ results[k].status = "not_found"
           /\ results[k].geometry = NoCand
           /\ results[k].radii_tried = LadderOf(RowOf(k))

\* C6 witness: a row geocoded to a square ended as not_found after the five
\* radius steps, one of which had its request fail.
C6_Witness ==
    \E k \in DOMAIN results :
        /\ Usable(RowOf(k))
        /\ results[k].status = "not_found"
        /\ results[k].radii_tried = <<80, 120, 160, 200, 350>>
        /\ \E j \in DOMAIN Sources(RowOf(k)) : Sources(RowOf(k))[j].path \notin DOMAIN cache

C10_NonRetryableFailsAtOnce == ~(lastOutcome = "non_retryable" /\ attempt > 1)

-----------------------------------------------------------------------------
(* Properties of the geocode ranking                                       *)

HitInBounds(h) == isWithinZagrebBounds(CoordOf(h.lat), CoordOf(h.lon))
EntryInBounds(e) == isWithinZagrebBounds(e.lat, e.lon)
LastCandidate == scoredCandidates[Len(scoredCandidates)]

\* C7: when a response holds a hit inside the bounds, the hit returned for
\* the query is inside the bounds; when a candidate of the record is inside
\* the bounds, the coordinate chosen for the record is inside the bounds.
C7_InBoundsPreferred ==
    /\ (hits # <<>> /\ \E i \in DOMAIN hits : HitInBounds(hits[i]))
       => /\ EntryInBounds(LastCandidate.entry)
          /\ \E i \in DOMAIN hits : LastCandidate.entry.raw = hits[i]
    /\ (pc = "chosen" /\ \E k \in DOMAIN scoredCandidates :
                            EntryInBounds(scoredCandidates[k].entry))
       => isWithinZagrebBounds(CoordOf(out[1].lat), CoordOf(out[1].lon))

\* C7 witness: a road inside the bounds was chosen for the record over a
\* building outside them.
C7_Witness ==
    /\ pc = "chosen"
    /\ out[1].geocode_category = "highway"
    /\ isWithinZagrebBounds(CoordOf(out[1].lat), CoordOf(out[1].lon))
    /\ \E k \in DOMAIN scoredCandidates :
          /\ ~EntryInBounds(scoredCandidates[k].entry)
          /\ scoredCandidates[k].entry.lat # Null
          /\ scoredCandidates[k].entry.raw.category = "building"
          /\ scoredCandidates[k].entry.raw.addresstype = "building"

-----------------------------------------------------------------------------
(* Properties of the replay                                                *)

\* C9: the report made of a cached response with its features in another
\* order is the report made of it before, and the resolution made of the
\* cache with its entries in another order is the resolution made before.
C9_OrderIndependent ==
    /\ repicked # NoPick
       => /\ ResultFor([id |-> RowIds[1]], repicked) = ResultFor([id |-> RowIds[1]], picked)
          /\ CountsAfter(ZeroCounts, repicked) = CountsAfter(ZeroCounts, picked)
    /\ Len(out) = 2 => out[2] = out[1]

\* C9 witness: the two top-ranked candidates differ in nothing but their
\* references, and the response was replayed with its features in an order
\* other than the first.
C9_Witness ==
    /\ repicked # NoPick
    /\ Len(repicked.topCandidates) >= 2
    /\ repicked.topCandidates[1].score = repicked.topCandidates[2].score
    /\ repicked.topCandidates[1].area_m2 = repicked.topCandidates[2].area_m2
    /\ repicked.topCandidates[1].dist_m = repicked.topCandidates[2].dist_m
    /\ \E a, b \in DOMAIN features : a < b /\ features[a].ref.n > features[b].ref.n

-----------------------------------------------------------------------------
(* Properties of the request cadence                                       *)

\* C11: every live request of a run but the first is sent after the fixed
\* rate-limit delay that followed the request before it, or, when it is
\* another attempt of the same call, after the backoff of that call.
C11_LiveRequestsSpaced == pacing.before \in {"first", "rate_limit", "backoff"}

-----------------------------------------------------------------------------
(* Properties of the spatial cache                                         *)

\* The cache path of the radius step a result came from.
RadiusPathOf(k) == <<sanitizeForFilename(rows[k].id), "radius", results[k].strategy.radius>>

\* C12: the response a radius result was made of was fetched for the
\* coordinate of the record and the radius of the step.
C12_RadiusCacheMatchesCoordinate ==
    \A k \in DOMAIN results :
        results[k].strategy.src = "radius"
        => /\ RadiusPathOf(k) \in DOMAIN queried
           /\ queried[RadiusPathOf(k)].radius = results[k].strategy.radius
           /\ queried[RadiusPathOf(k)].lat = NumberOf(rows[k].lat)
           /\ queried[RadiusPathOf(k)].lon = NumberOf(rows[k].lon)

-----------------------------------------------------------------------------
(* Properties of the retry loops                                           *)

\* C13: a request is attempted at most 3 times by the geocode stage and 4
\* times by the footprint stage, the backoff before attempt n + 1 is
\* 800 * 2^(n - 1) ms, and a call that ran out of attempts never ends the
\* run: the run goes on to write one row or result per record.
C13_ExhaustedCallFailsAlone ==
    /\ records # <<>> => attempt <= GeocodeMaxAttempts
    /\ rows # <<>> => attempt <= OverpassMaxAttempts
    /\ pacing.after.kind = "backoff" => pacing.after.ms = BackoffBaseMs * 2 ^ (attempt - 2)
    /\ pc # "aborted"
    /\ pc = "geocoded" => Len(out) = Len(records)
    /\ pc = "done" => Len(results) = Len(rows)

-----------------------------------------------------------------------------
(* Properties of the outputs                                               *)

C16_OverrideIsHigh ==
    \A k \in DOMAIN results :
        (rows[k].override # NoOverride /\ StartsWith(results[k].strategy, "override_direct"))
        => /\ results[k].confidence = "high"
           /\ results[k].geometry # NoCand

\* The area of the geometry a result reports: that of the polygons of
\* the candidates it names.
RECURSIVE SelectedArea(_, _)
SelectedArea(cands, refs) ==
    IF cands = <<>> THEN 0
    ELSE (IF \E j \in DOMAIN refs : refs[j] = Head(cands).osm_ref
          THEN Head(cands).area_m2 ELSE 0)
         + SelectedArea(Tail(cands), refs)

\* C17: a result whose selected geometry has an area outside the plausible
\* range of a building has status invalid and no geometry, its record is
\* absent from the geometries map, and it keeps strategy and candidates.
C17_ImplausibleAreaIsInvalid ==
    \A k \in DOMAIN results :
        (/\ results[k].osm_refs # <<>>
         /\ AreaWarning(SelectedArea(results[k].top_candidates, results[k].osm_refs)))
        => /\ results[k].status = "invalid"
           /\ results[k].geometry = NoCand
           /\ results[k].building_id \notin DOMAIN geometries
           /\ results[k].top_candidates # <<>>

-----------------------------------------------------------------------------
(* Properties of the address query generator                               *)

\* C18: no two of the generated queries are equal ignoring case, and none
\* holds the separator "/".
C18_QueriesUniqueAndUnsplit ==
    pc = "generated"
    => /\ \A i, j \in DOMAIN addressQueries :
             i # j => LowerOf(addressQueries[i]) # LowerOf(addressQueries[j])
       /\ \A i \in DOMAIN addressQueries : ~IncludesSlash(addressQueries[i])

\* The address variants of a record: its primary address, the normalized
\* parts and the segments of its address, without blanks.
VariantsOf(r) ==
    {normalizeAddress(r.primary_address)}
    \cup {normalizeAddress(r.addresses_json.parts[k].normalized) :
             k \in DOMAIN r.addresses_json.parts}
    \cup {normalizeAddress(SplitSlash(r.address)[k]) : k \in DOMAIN SplitSlash(r.address)}

\* q is v with more text after it, ignoring case.
StartsWithIgnoringCase(q, v) ==
    Len(q) >= Len(v) /\ LowerOf(SubSeq(q, 1, Len(v))) = LowerOf(v)

\* C19: every generated query names the city or the country, and every
\* non-empty variant of the record that names neither is in the list with
\* that context after it.
C19_ContextAppended ==
    pc = "generated"
    => /\ \A i \in DOMAIN addressQueries : MentionsCity(addressQueries[i])
       /\ \A v \in VariantsOf(canonical) :
             (v # <<>> /\ ~IncludesSlash(v) /\ ~MentionsCity(v))
             => \E i \in DOMAIN addressQueries :
                   /\ StartsWithIgnoringCase(addressQueries[i], v)
                   /\ MentionsCity(addressQueries[i])

-----------------------------------------------------------------------------
(* Properties of the coordinates and geometries put out                    *)

\* The geocode stage left row k unresolved: lat and lon are empty.
Unresolved(k) == rows[k].lat = "" /\ rows[k].lon = ""

\* A radius query was sent for row k.
RadiusQueried(k) ==
    \E path \in DOMAIN queried :
        path[1] = sanitizeForFilename(rows[k].id) /\ path[2] = "radius"

\* The map document holds a point for row k.
PointBuilt(k) ==
    \E i \in DOMAIN mapFeatures :
        mapFeatures[i].id = rows[k].id /\ mapFeatures[i].geometry.type = "Point"

\* C20: for a record the geocode stage left unresolved, the footprint
\* stage sends no query around a coordinate and the map document holds no
\* point geometry.
C20_NoFabricatedCoordinate ==
    \A k \in DOMAIN rows : Unresolved(k) => ~RadiusQueried(k) /\ ~PointBuilt(k)

-----------------------------------------------------------------------------
(* Properties of the order of the sources                                  *)

\* The place of a cache path in the order override, geocoder's object,
\* radius queries.
SourceRank(path) ==
    IF path[2] = "override" THEN 1 ELSE IF path[2] = "geocode" THEN 2 ELSE 3

\* Path p belongs to a source that comes before the source of path q.
SourceBefore(p, q) ==
    \/ SourceRank(p) < SourceRank(q)
    \/ (p[2] = "radius" /\ q[2] = "radius" /\ p[3] < q[3])

\* The geocoder's object of row r is a way or a relation that the geocoder
\* classifies as a building.
BuildingRef(r) ==
    /\ r.geocode_osm_id # ""
    /\ r.geocode_osm_type \in {"way", "relation"}
    /\ (r.geocode_category = "building" \/ r.geocode_addresstype = "building")

\* The first source of a row is entered.
FirstSourceInOrder ==
    (pc = "row" /\ pc' = "fetch")
    => LET r == rows[rowIdx']
           kind == CurSource'.path[2]
       IN  /\ r.override # NoOverride => kind = "override"
           /\ (r.override = NoOverride /\ BuildingRef(r)) => kind = "geocode"
           /\ (r.override = NoOverride /\ ~BuildingRef(r)) => kind = "radius"

\* The source being fetched is left for the next one, or for the result.
NextSourceInOrder ==
    pc = "fetch"
    => LET p == CurSource.path
           gave == p \in DOMAIN cache' /\ ValidIn(cache'[p]) # <<>>
       IN  /\ (pc' = "row" /\ Len(results') = Len(results) + 1) \/ ~gave
           /\ (pc' = "fetch" /\ step' # step)
              => LET q == CurSource'.path
                 IN  /\ rowIdx' = rowIdx
                     /\ ~gave
                     /\ SourceBefore(p, q)
                     /\ (p[2] = "override" /\ BuildingRef(CurRow)) => q[2] = "geocode"
                     /\ q[2] = "geocode" => BuildingRef(CurRow)
                     /\ (p[2] = "radius" /\ q[2] = "radius")
                        => \A radius \in {120, 160, 200, 350} : ~(p[3] < radius /\ radius < q[3])

\* C21: the sources of a record are consulted in the order override,
\* geocoder's object (only a way or relation classified as a building),
\* radius queries; a source is left for the next one only when it failed or
\* its response holds no valid polygon, and a response with a valid polygon
\* ends the matching of the record.
C21_SourcesInOrder == [][FirstSourceInOrder /\ NextSourceInOrder]_vars

\* An override that gave no polygon was followed by the geocoder's object,
\* which gave none either, and by a radius query.
C21_Witness ==
    \E p, q, t \in DOMAIN cache :
        /\ p[1] = q[1] /\ q[1] = t[1]
        /\ p[2] = "override" /\ q[2] = "geocode" /\ t[2] = "radius"

-----------------------------------------------------------------------------
(* Properties of the radius ladder                                         *)

IsPrefix(s, t) == Len(s) <= Len(t) /\ \A i \in DOMAIN s : s[i] = t[i]

\* The cache path of radius step i of row k.
RadiusStepPath(k, i) == <<sanitizeForFilename(rows[k].id), "radius", LadderOf(rows[k])[i]>>

\* C22: radii_tried is a prefix of the ladder of the record, while a row is
\* being matched and in every result; a result of the radius search comes
\* from the last radius tried, and the responses stored for the radii
\* tried before it hold no valid polygon.
C22_RadiiArePrefixOfLadder ==
    /\ pc = "fetch" => IsPrefix(radii_tried, LadderOf(CurRow))
    /\ \A k \in DOMAIN results :
          /\ IsPrefix(results[k].radii_tried, LadderOf(rows[k]))
          /\ results[k].strategy.src = "radius"
             => /\ results[k].radii_tried # <<>>
                /\ results[k].strategy.radius =
                      results[k].radii_tried[Len(results[k].radii_tried)]
                /\ \A i \in 1..(Len(results[k].radii_tried) - 1) :
                      RadiusStepPath(k, i) \in DOMAIN cache
                      => ValidIn(cache[RadiusStepPath(k, i)]) = <<>>

\* A polygon was found at the second radius.
C22_Witness ==
    \E k \in DOMAIN results :
        results[k].strategy.src = "radius" /\ Len(results[k].radii_tried) = 2

-----------------------------------------------------------------------------
(* Properties of the ranking of candidates                                 *)

\* C23: of two ranked candidates with the same containment, the one ranked
\* ahead has no lower address bonus, whatever their tag class, distance and
\* area.
C23_AddressBonusDominates ==
    picked # NoPick
    => \A i, j \in DOMAIN picked.topCandidates :
          (/\ i < j
           /\ picked.topCandidates[i].contains = picked.topCandidates[j].contains)
          => picked.topCandidates[i].addr_bonus >= picked.topCandidates[j].addr_bonus

-----------------------------------------------------------------------------
(* Properties of the choice among the candidates of a record               *)

\* The candidates of the listed queries of record r, made of the cached
\* entries, in the order of the queries.
ListedCandidates(r) ==
    [k \in DOMAIN r.queries |->
        Candidate(r.queries[k], CacheGet(geocodeCache, toLowerCase(r.queries[k])))]

\* The name-assisted query of record r was looked up.
NameAssisted(r) == r.queries # <<>> /\ CacheHas(geocodeCache, toLowerCase(NameQuery(r)))

NameCandidate(r) ==
    Candidate(NameQuery(r), CacheGet(geocodeCache, toLowerCase(NameQuery(r))))

\* C24: the query chosen for a record is the first of its listed queries
\* with the highest score, unless the name-assisted query scores strictly
\* higher than every listed one, and then it is the name-assisted query.
C24_FirstBestCandidateChosen ==
    \A k \in DOMAIN out :
        LET r == records[k]
            listed == ListedCandidates(r)
            IsTop(i) == \A j \in DOMAIN listed : listed[j].score <= listed[i].score
            firstBest == CHOOSE i \in DOMAIN listed :
                            IsTop(i) /\ \A j \in 1..(i - 1) : ~IsTop(j)
        IN  r.queries # <<>>
            => IF NameAssisted(r) /\ NameCandidate(r).score > listed[firstBest].score
               THEN out[k].geocode_query = NameQuery(r)
               ELSE out[k].geocode_query = r.queries[firstBest]

-----------------------------------------------------------------------------
(* Properties of the results made of merged building parts                 *)

\* C25: a result whose geometry was made by merging building parts has the
\* status matched_parts_merged, and its references are the objects of the
\* merged polygons.
C25_MergedIsReportedMerged ==
    \A k \in DOMAIN results :
        IncludesPartsMerged(results[k].strategy)
        => /\ results[k].status = "matched_parts_merged"
           /\ {results[k].osm_refs[i] : i \in DOMAIN results[k].osm_refs}
                = {results[k].geometry.polys[i][1] : i \in DOMAIN results[k].geometry.polys}

-----------------------------------------------------------------------------
(* Properties of what the caches hold                                      *)

\* The entries geocodeNominatim returns for a request that failed: a
\* status that is not ok, or no response after the last attempt.
FailureEntries ==
    {StatusEntry("retryable"), StatusEntry("non_retryable"), ErrorEntry("fetch failed")}

\* C26: no cache holds anything for a request that failed: the geocode
\* cache holds no failure entry, and the spatial cache holds no file for a
\* source whose attempts have failed so far.
C26_FailuresNotCached ==
    /\ \A k \in DOMAIN geocodeCache : geocodeCache[k].entry \notin FailureEntries
    /\ (pc = "fetch" /\ lastOutcome # "none") => CurSource.path \notin DOMAIN cache

-----------------------------------------------------------------------------
(* Properties of a manual override that gives nothing                      *)

\* The cache path of the override of row k and of its geocoder's object.
OverridePathOf(k) ==
    <<sanitizeForFilename(rows[k].id), "override", rows[k].override.osm_type,
      rows[k].override.osm_id>>

GeocodePathOf(k) ==
    <<sanitizeForFilename(rows[k].id), "geocode", rows[k].geocode_osm_type,
      rows[k].geocode_osm_id>>

\* No valid polygon is stored under the path: the fetch failed, or the
\* response held none.
GaveNothing(path) == path \notin DOMAIN cache \/ ValidIn(cache[path]) = <<>>

\* C27: the result of a row whose override gave nothing comes from the
\* geocoder's object or from a radius, or is no_match_found after the
\* geocoder's object (if it is a building way or relation) gave nothing and
\* the whole ladder was tried; its strategy does not start with
\* override_direct.
C27_FailedOverrideFallsThrough ==
    \A k \in DOMAIN results :
        (rows[k].override # NoOverride /\ GaveNothing(OverridePathOf(k)))
        => /\ ~StartsWith(results[k].strategy, "override_direct")
           /\ results[k].strategy.src \in {"direct_geocode_ref", "radius", "no_match_found"}
           /\ results[k].strategy.src # "direct_geocode_ref"
              => /\ results[k].radii_tried # <<>>
                 /\ BuildingRef(rows[k]) => GaveNothing(GeocodePathOf(k))
           /\ results[k].strategy.src = "no_match_found"
              => /\ results[k].geometry = NoCand
                 /\ results[k].radii_tried = LadderOf(rows[k])

\* The override answered with an open way, and a radius gave the geometry.
C27_Witness ==
    \E k \in DOMAIN results :
        /\ rows[k].override # NoOverride
        /\ OverridePathOf(k) \in DOMAIN cache
        /\ ValidIn(cache[OverridePathOf(k)]) = <<>>
        /\ results[k].strategy.src = "radius"
        /\ results[k].geometry # NoCand

-----------------------------------------------------------------------------
(* Properties of the winner of a merge                                     *)

\* C28: when building parts were merged, the winner is one of them: its
\* reference is among the references of the result and a polygon of the
\* MultiPolygon is its polygon.
C28_WinnerIsMerged ==
    (picked # NoPick /\ IncludesPartsMerged(picked.strategy))
    => /\ \E i \in DOMAIN picked.osm_refs : picked.osm_refs[i] = Winner.osm_ref
       /\ \E i \in DOMAIN picked.geometry.polys :
             picked.geometry.polys[i][1] = Winner.osm_ref

-----------------------------------------------------------------------------
(* Properties of the footprint report                                      *)

GeometryStatuses == {"matched", "matched_parts_merged", "ambiguous"}

\* C29: a result has a geometry exactly when its status is matched,
\* matched_parts_merged or ambiguous, and the id of its row is a key of the
\* geometries map exactly when it has a geometry.
C29_GeometryIffMatched ==
    /\ \A k \in DOMAIN results :
          /\ results[k].geometry # NoCand <=> results[k].status \in GeometryStatuses
          /\ rows[k].id \in DOMAIN geometries <=> results[k].geometry # NoCand
          /\ rows[k].id \in DOMAIN geometries
             => geometries[rows[k].id].geometry = results[k].geometry
    /\ \A id \in DOMAIN geometries : \E k \in DOMAIN results : rows[k].id = id

\* A run ended with a row that has a geometry and a row that has none.
C29_Witness ==
    /\ pc = "done"
    /\ \E k, j \in DOMAIN results :
          /\ results[k].status = "ambiguous" /\ rows[k].id \in DOMAIN geometries
          /\ results[j].status \in {"not_found", "skipped_no_coords"}
          /\ rows[j].id \notin DOMAIN geometries

FootprintStatuses ==
    {"matched", "matched_parts_merged", "ambiguous", "not_found", "invalid",
     "skipped_no_coords"}

\* C30: after the run each of the six counts is the number of results with
\* that status, and the six counts sum to the number of rows.
C30_CountsMatchResults ==
    pc = "done"
    => /\ \A st \in FootprintStatuses :
             counts[st] = Cardinality({k \in DOMAIN results : results[k].status = st})
       /\ counts.matched + counts.matched_parts_merged + counts.ambiguous
            + counts.not_found + counts.invalid + counts.skipped_no_coords = Len(rows)

\* A run ended with results of two statuses, one of them a merge.
C30_Witness ==
    /\ pc = "done"
    /\ counts.matched_parts_merged = 1
    /\ counts.skipped_no_coords = 1
    /\ Len(rows) = 2

=============================================================================
